---- MODULE Spec2Model ----
(***************************************************************************)
(* Model of the plutus-core graph model (Graph, Pool, Gate, Converter,     *)
(* Swap, Edge): the element store with its label index and auto-label      *)
(* counters, the edit operations that keep the node <-> edge links, and    *)
(* the local operations of the node kinds.                                 *)
(*                                                                         *)
(* Objects are records, `elements` maps the live ids to them.  A method    *)
(* that runs as several statements is an operator over a run record `r`    *)
(* that is threaded through the statements in the order of the code; an    *)
(* exception sets r.err and every later statement is skipped, so that the  *)
(* state a failing call leaves behind is the state the code leaves behind. *)
(***************************************************************************)
EXTENDS Integers, Sequences, FiniteSets, TLC

VARIABLES elements, labels, autoLabelCounter, graphClone

vars == <<elements, labels, autoLabelCounter, graphClone>>

(***************************************************************************)
(* Bounds of the model.                                                    *)
(***************************************************************************)
MaxNodes == 2
MaxEdges == 2
MaxAuto == 1
MaxAutoEdge == 3
MaxPipeIndex == 1
MaxAmount == 2

NodeNames == <<"n1", "n2", "n3", "n4">>
EdgeNames == <<"e1", "e2", "e3", "e4">>
NodeIds == {NodeNames[i] : i \in 1..MaxNodes}
EdgeIds == {EdgeNames[i] : i \in 1..MaxEdges}
Ids == NodeIds \cup EdgeIds

\* JavaScript `undefined` in a slot that holds an element id
Undefined == "undefined"
\* the value of `graphClone` while clone() has not been called
NoClone == [made |-> FALSE]
\* getElement(id) of an id that is not in `elements`
UndefinedElement == [type |-> Undefined]
\* an optional argument that the caller left out
Omitted == <<>>

NoError == "no error"

(***************************************************************************)
(* Labels are strings, modelled as sequences of characters.                *)
(***************************************************************************)
LetterChars == {"a", "b", "c", "d", "e", "g", "l", "n", "o", "p", "r", "s",
                "t", "v", "w"}
DigitChars == {"0", "1", "2", "3", "4", "5", "6", "7", "8", "9"}
DigitOf == <<"0", "1", "2", "3", "4", "5", "6", "7", "8", "9">>

ElementTypeChars ==
  [pool      |-> <<"p", "o", "o", "l">>,
   gate      |-> <<"g", "a", "t", "e">>,
   converter |-> <<"c", "o", "n", "v", "e", "r", "t", "e", "r">>,
   edge      |-> <<"e", "d", "g", "e">>,
   swap      |-> <<"s", "w", "a", "p">>]

NodeType == {"pool", "gate", "converter", "swap"}

\* labels a caller passes to setLabel: "a" and the invalid "1a"
UserLabels == {<<"a">>, <<"1", "a">>}

isValidLabel(label) ==
  /\ Len(label) >= 1
  /\ label[1] \in LetterChars \cup {"_", "$"}
  /\ \A i \in 2..Len(label) : label[i] \in LetterChars \cup DigitChars \cup {"_", "$"}

DEFAULT_WEIGHT == 1

(***************************************************************************)
(* Records and maps.                                                       *)
(***************************************************************************)
\* delete m[k] of a JavaScript object used as a map
DeleteKey(m, k) == [x \in DOMAIN m \ {k} |-> m[x]]

\* m[k] = v of a JavaScript object used as a map
SetKey(m, k, v) == [x \in DOMAIN m \cup {k} |-> IF x = k THEN v ELSE m[x]]

\* index of the first entry of sequence s whose field `key` is v, 0 if none
FirstIndex(s, key, v) ==
  IF \E i \in 1..Len(s) : s[i][key] = v
  THEN CHOOSE i \in 1..Len(s) : s[i][key] = v /\ \A j \in 1..(i - 1) : s[j][key] # v
  ELSE 0

\* constructors with a label argument
\* defaultToken: the label followed by "_token"
defaultToken(label) == label \o <<"_", "t", "o", "k", "e", "n">>

NewPool(label) ==
  [type |-> "pool", label |-> label, token |-> defaultToken(label),
   state |-> 0, capacity |-> -1,
   fromEdge |-> Undefined, toEdge |-> Undefined]

NewGate(label) ==
  [type |-> "gate", label |-> label, fromEdge |-> Undefined,
   selectedToEdge |-> Undefined, toEdges |-> <<>>]

\* requiredInputPerUnit and buffer are objects keyed by token, kept as
\* sequences of entries in the order of Object.entries
NewConverter(label) ==
  [type |-> "converter", label |-> label, token |-> defaultToken(label),
   fromEdges |-> <<>>, toEdge |-> Undefined, condition |-> "true",
   requiredInputPerUnit |-> <<>>, buffer |-> <<>>]

\* JavaScript `undefined` in a slot that holds a token
UndefinedToken == <<>>

NewSwap(label) ==
  [type |-> "swap", label |-> label, pipes |-> <<>>,
   tokenA |-> [token |-> UndefinedToken, amount |-> 100],
   tokenB |-> [token |-> UndefinedToken, amount |-> 100],
   constraint |-> 100 * 100]

DEFAULT_EDGE_RATE == 1

\* new Edge(label, fromNode, toNode, rate): a negative rate is stored as -1
\* the condition is a formula; the model has the formulas "true" and "false"
NewEdge(label, fromNode, toNode) ==
  [type |-> "edge", label |-> label, fromNode |-> fromNode, toNode |-> toNode,
   condition |-> "true",
   rate |-> IF DEFAULT_EDGE_RATE >= 0 THEN DEFAULT_EDGE_RATE ELSE -1]

\* a pipe of a Swap; `held` marks the array object that a local variable of
\* the running method refers to, it is FALSE in every state between calls
NewPipe == [in |-> Undefined, out |-> Undefined, held |-> FALSE]

\* keys of Gate.toEdges, in the order of Object.keys
OutputKeys(gate) == [i \in 1..Len(gate.toEdges) |-> gate.toEdges[i].id]

SeqToSet(s) == {s[i] : i \in 1..Len(s)}

(***************************************************************************)
(* Methods of the node classes, as functions from the object to the        *)
(* object after the call.                                                  *)
(***************************************************************************)
Pool_deleteInput(pool) == [pool EXCEPT !.fromEdge = Undefined]

Pool_deleteOutput(pool) == [pool EXCEPT !.toEdge = Undefined]

\* throws 'output weight must be >= 0', the gate as it was, when weight < 0
Gate_setOutput(gate, edgeId, weight) ==
  LET i == FirstIndex(gate.toEdges, "id", edgeId)
  IN IF weight < 0 THEN gate
     ELSE IF i = 0
     THEN [gate EXCEPT !.toEdges = Append(@, [id |-> edgeId, weight |-> weight])]
     ELSE [gate EXCEPT !.toEdges[i].weight = weight]

Gate_deleteInput(gate) == [gate EXCEPT !.fromEdge = Undefined]

Gate_deleteOutput(gate, id) ==
  [gate EXCEPT !.toEdges = SelectSeq(@, LAMBDA o : o.id # id)]

Converter_setInput(converter, edgeId) ==
  IF edgeId \in SeqToSet(converter.fromEdges)
  THEN converter
  ELSE [converter EXCEPT !.fromEdges = Append(@, edgeId)]

Converter_deleteInput(converter, edgeId) ==
  [converter EXCEPT !.fromEdges = SelectSeq(@, LAMBDA x : x # edgeId)]

Converter_deleteOutput(converter) == [converter EXCEPT !.toEdge = Undefined]

Swap_deleteInput(swap, edgeId) ==
  LET i == FirstIndex(swap.pipes, "in", edgeId)
  IN IF i = 0 THEN swap
     ELSE IF swap.pipes[i].out = Undefined
          THEN [swap EXCEPT !.pipes = SelectSeq(@, LAMBDA p : p.in # edgeId)]
          ELSE [swap EXCEPT !.pipes[i].in = Undefined]

Swap_deleteOutput(swap, edgeId) ==
  LET i == FirstIndex(swap.pipes, "out", edgeId)
  IN IF i = 0 THEN swap
     ELSE IF swap.pipes[i].in = Undefined
          THEN [swap EXCEPT !.pipes = SelectSeq(@, LAMBDA p : p.out # edgeId)]
          ELSE [swap EXCEPT !.pipes[i].out = Undefined]

(***************************************************************************)
(* The run record of a Graph method.  heap holds every object the method   *)
(* can still refer to, also one that was removed from `elements` while the *)
(* method holds a reference to it; live is the key set of `elements`.      *)
(***************************************************************************)
Run(els, lbs, ctr) ==
  [heap |-> els, live |-> DOMAIN els, labels |-> lbs, autoLabelCounter |-> ctr,
   deleted |-> <<>>, err |-> NoError]

Throw(r, msg) == IF r.err = NoError THEN [r EXCEPT !.err = msg] ELSE r

\* the `elements` object at the end of a run
ElementsOf(r) == [id \in r.live |-> r.heap[id]]

getElement(r, id) == IF id \in r.live THEN r.heap[id] ELSE UndefinedElement

\* delete an edge id from the outputs edges of a node
deleteNodeOutput(r, fromId, edgeId) ==
  LET from == r.heap[fromId]
  IN CASE from.type = "edge" ->
            Throw(r, "cannot delete output of edge (edge-edge connection not allowed)")
       [] from.type = "pool" ->
            [r EXCEPT !.heap[fromId] = Pool_deleteOutput(from)]
       [] from.type = "gate" ->
            [r EXCEPT !.heap[fromId] = Gate_deleteOutput(from, edgeId)]
       [] from.type = "converter" ->
            [r EXCEPT !.heap[fromId] = Converter_deleteOutput(from)]
       [] from.type = "swap" ->
            [r EXCEPT !.heap[fromId] = Swap_deleteOutput(from, edgeId)]

\* delete an edge id from the input edges of a node
deleteNodeInput(r, toId, edgeId) ==
  LET to == r.heap[toId]
  IN CASE to.type = "edge" ->
            Throw(r, "cannot delete output of edge (edge-edge connection not allowed)")
       [] to.type = "pool" ->
            [r EXCEPT !.heap[toId] = Pool_deleteInput(to)]
       [] to.type = "gate" ->
            [r EXCEPT !.heap[toId] = Gate_deleteInput(to)]
       [] to.type = "converter" ->
            [r EXCEPT !.heap[toId] = Converter_deleteInput(to, edgeId)]
       [] to.type = "swap" ->
            [r EXCEPT !.heap[toId] = Swap_deleteInput(to, edgeId)]

RECURSIVE deleteElementInner(_, _)
RECURSIVE deleteEach(_, _)

\* deleteElementInner of every id of a list, in the order of the list
deleteEach(r, ids) ==
  IF ids = <<>> THEN r
  ELSE deleteEach(deleteElementInner(r, Head(ids)), Tail(ids))

\* the ids of the pipes of a Swap in the order the deletion visits them
PipeEnds(pipes) ==
  LET RECURSIVE Ends(_)
      Ends(ps) ==
        IF ps = <<>> THEN <<>>
        ELSE (IF Head(ps).in # Undefined THEN <<Head(ps).in>> ELSE <<>>)
             \o (IF Head(ps).out # Undefined THEN <<Head(ps).out>> ELSE <<>>)
             \o Ends(Tail(ps))
  IN Ends(pipes)

deleteElementInner(r, id) ==
  IF r.err # NoError \/ id \notin r.live THEN r
  ELSE
    LET e == r.heap[id]
        r1 == [r EXCEPT !.deleted = Append(@, id),
                        !.live = @ \ {id},
                        !.labels = DeleteKey(@, e.label)]
    IN CASE e.type = "pool" ->
              deleteEach(r1,
                (IF e.fromEdge # Undefined THEN <<e.fromEdge>> ELSE <<>>)
                \o (IF e.toEdge # Undefined THEN <<e.toEdge>> ELSE <<>>))
         [] e.type = "converter" ->
              deleteEach(r1,
                (IF e.toEdge # Undefined THEN <<e.toEdge>> ELSE <<>>)
                \o e.fromEdges)
         [] e.type = "gate" ->
              deleteEach(r1,
                (IF e.fromEdge # Undefined THEN <<e.fromEdge>> ELSE <<>>)
                \o OutputKeys(e))
         [] e.type = "edge" ->
              LET fromLive == e.fromNode \in r1.live
                  toLive == e.toNode \in r1.live
                  r2 == IF fromLive THEN deleteNodeOutput(r1, e.fromNode, id) ELSE r1
              IN IF toLive /\ r2.err = NoError
                 THEN deleteNodeInput(r2, e.toNode, id)
                 ELSE r2
         [] e.type = "swap" ->
              deleteEach(r1, PipeEnds(e.pipes))

\* Graph.deleteElement: a fresh `deleted` list, then deleteElementInner
deleteElement(r, id) == deleteElementInner([r EXCEPT !.deleted = <<>>], id)

(***************************************************************************)
(* Automatic labels `<type>$<n>`.                                          *)
(***************************************************************************)
autoLabel(r, type) ==
  ElementTypeChars[type] \o <<"$">> \o <<DigitOf[r.autoLabelCounter[type] + 1]>>

\* the counter after autoLabel: the `++` of the template string
autoLabelBump(r, type) == [r EXCEPT !.autoLabelCounter[type] = @ + 1]

(***************************************************************************)
(* Swap._getOrCreatePipe, and the hold on the pipe it returns.             *)
(***************************************************************************)
Swap_getOrCreatePipe(swap, index) ==
  IF index < Len(swap.pipes) THEN swap
  ELSE [swap EXCEPT !.pipes = Append(@, NewPipe)]

Hold(swap, index) == [swap EXCEPT !.pipes[index + 1].held = TRUE]

Unhold(swap) ==
  [swap EXCEPT !.pipes = [i \in 1..Len(@) |-> [@[i] EXCEPT !.held = FALSE]]]

\* pipe[0] = edgeId through the reference held by the method: the write
\* reaches the Swap only if the pipe is still in its pipes array
WriteHeldIn(swap, edgeId) ==
  [swap EXCEPT !.pipes =
     [i \in 1..Len(@) |-> IF @[i].held THEN [@[i] EXCEPT !.in = edgeId] ELSE @[i]]]

WriteHeldOut(swap, edgeId) ==
  [swap EXCEPT !.pipes =
     [i \in 1..Len(@) |-> IF @[i].held THEN [@[i] EXCEPT !.out = edgeId] ELSE @[i]]]

(***************************************************************************)
(* node.output = edge.from                                                 *)
(***************************************************************************)
setNodeOutputToEdge(r, fromId, edgeId, swapInputIndex) ==
  LET from == r.heap[fromId]
  IN CASE from.type = "edge" -> Throw(r, "edge must not start from Edge")
       [] from.type = "gate" ->
            [r EXCEPT !.heap[fromId] = Gate_setOutput(from, edgeId, DEFAULT_WEIGHT)]
       [] from.type = "swap" ->
            IF swapInputIndex = Omitted THEN Throw(r, "missing swap input index")
            ELSE IF swapInputIndex[1] > Len(from.pipes)
            THEN Throw(r, "swap index out of range")
            ELSE
              LET index == swapInputIndex[1]
                  r1 == [r EXCEPT !.heap[fromId] =
                           Hold(Swap_getOrCreatePipe(from, index), index)]
                  pipe_out == r1.heap[fromId].pipes[index + 1].out
                  r2 == IF pipe_out # Undefined THEN deleteElement(r1, pipe_out) ELSE r1
                  r3 == IF r2.err = NoError
                        THEN [r2 EXCEPT !.heap[fromId] = WriteHeldOut(@, edgeId)]
                        ELSE r2
              IN [r3 EXCEPT !.heap[fromId] = Unhold(@)]
       [] from.type \in {"pool", "converter"} ->
            LET currentOutputEdge == from.toEdge
                r1 == IF currentOutputEdge # Undefined
                      THEN deleteElement(r, currentOutputEdge)
                      ELSE r
            IN IF r1.err = NoError
               THEN [r1 EXCEPT !.heap[fromId].toEdge = edgeId]
               ELSE r1

(***************************************************************************)
(* node.input = edge.to                                                    *)
(***************************************************************************)
setNodeInputToEdge(r, toId, edgeId, swapInputIndex) ==
  LET to == r.heap[toId]
  IN CASE to.type = "edge" -> Throw(r, "edge must not point to Edge")
       [] to.type \in {"pool", "gate"} ->
            LET currentOutputEdge == to.fromEdge
                r1 == IF currentOutputEdge # Undefined
                      THEN deleteElement(r, currentOutputEdge)
                      ELSE r
            IN IF r1.err = NoError
               THEN [r1 EXCEPT !.heap[toId].fromEdge = edgeId]
               ELSE r1
       [] to.type = "swap" ->
            IF swapInputIndex = Omitted THEN Throw(r, "missing swap input index")
            ELSE IF swapInputIndex[1] > Len(to.pipes)
            THEN Throw(r, "swap index out of range")
            ELSE
              LET index == swapInputIndex[1]
                  r1 == [r EXCEPT !.heap[toId] =
                           Hold(Swap_getOrCreatePipe(to, index), index)]
                  pipe_in == r1.heap[toId].pipes[index + 1].in
                  r2 == IF pipe_in # Undefined THEN deleteElement(r1, pipe_in) ELSE r1
                  r3 == IF r2.err = NoError
                        THEN [r2 EXCEPT !.heap[toId] = WriteHeldIn(@, edgeId)]
                        ELSE r2
              IN [r3 EXCEPT !.heap[toId] = Unhold(@)]
       [] to.type = "converter" ->
            [r EXCEPT !.heap[toId] = Converter_setInput(to, edgeId)]

(***************************************************************************)
(* Graph.addEdge                                                           *)
(***************************************************************************)
addEdge(r, edgeId, fromId, toId, swapInputIndex, label) ==
  LET from == getElement(r, fromId)
      to == getElement(r, toId)
      labelName == IF label # Omitted THEN label ELSE autoLabel(r, "edge")
      r1 == IF label # Omitted THEN r ELSE autoLabelBump(r, "edge")
  IN IF from = UndefinedElement \/ to = UndefinedElement
     THEN Throw(r1, "connecting Node with non-existing id")
     ELSE IF edgeId \in r1.live
     THEN Throw(r1, "edge id already exists")
     ELSE IF fromId = toId
     THEN Throw(r1, "cannot connect to self (self loop not allowed)")
     ELSE
       LET r2 == setNodeOutputToEdge(r1, fromId, edgeId, swapInputIndex)
           r3 == IF r2.err = NoError
                 THEN setNodeInputToEdge(r2, toId, edgeId, swapInputIndex)
                 ELSE r2
       IN IF r3.err # NoError THEN r3
          ELSE IF ~isValidLabel(labelName)
          THEN Throw(r3, "label must follow javascript variable naming format")
          ELSE [r3 EXCEPT !.heap = SetKey(@, edgeId, NewEdge(labelName, fromId, toId)),
                          !.live = @ \cup {edgeId},
                          !.labels = SetKey(@, labelName, edgeId)]

(***************************************************************************)
(* Graph.addNode                                                           *)
(***************************************************************************)
NewNode(type, label) ==
  CASE type = "pool" -> NewPool(label)
    [] type = "gate" -> NewGate(label)
    [] type = "converter" -> NewConverter(label)
    [] type = "swap" -> NewSwap(label)

addNode(r, type, id, label) ==
  IF id \in r.live THEN Throw(r, "id already exists")
  ELSE
    LET labelName == IF label # Omitted THEN label ELSE autoLabel(r, type)
        r1 == IF label # Omitted THEN r ELSE autoLabelBump(r, type)
    IN IF labelName \in DOMAIN r1.labels THEN Throw(r1, "duplicate label")
       ELSE IF ~isValidLabel(labelName)
       THEN Throw(r1, "label must follow javascript variable naming format")
       ELSE [r1 EXCEPT !.heap = SetKey(@, id, NewNode(type, labelName)),
                       !.live = @ \cup {id},
                       !.labels = SetKey(@, labelName, id)]

(***************************************************************************)
(* Graph.setLabel with Graph.validateLabel                                 *)
(***************************************************************************)
validateLabel(r, id, label) ==
  IF id \notin r.live THEN Throw(r, "id not found")
  ELSE IF label \in DOMAIN r.labels THEN Throw(r, "label already exists")
  ELSE IF ~isValidLabel(label)
  THEN Throw(r, "label must follow javascript variable naming format")
  ELSE r

setLabel(r, id, label) ==
  LET r1 == validateLabel(r, id, label)
  IN IF r1.err # NoError THEN r1
     ELSE [r1 EXCEPT !.labels = SetKey(DeleteKey(@, r1.heap[id].label), label, id),
                     !.heap[id].label = label]

(***************************************************************************)
(* Graph.setGateOutputWeight with Graph.validateGateOutputWeight; the      *)
(* validation is called without the weight, which then is DEFAULT_WEIGHT.  *)
(***************************************************************************)
validateGateOutputWeight(r, gateId, edgeId, weight) ==
  IF getElement(r, gateId).type # "gate" THEN Throw(r, "Selected element is not a gate")
  ELSE IF getElement(r, edgeId).type # "edge"
  THEN Throw(r, "the output element must be specified as an edge")
  ELSE IF edgeId \notin SeqToSet(OutputKeys(r.heap[gateId]))
  THEN Throw(r, "the output edge is not connected to this gate")
  ELSE IF weight < 0 THEN Throw(r, "output weight must be >= 0")
  ELSE r

Max(a, b) == IF a >= b THEN a ELSE b

Min(a, b) == IF a <= b THEN a ELSE b

\* setGateOutputWeight that hands the weight to the validation
setGateOutputWeight_checked(r, gateId, edgeId, weight) ==
  LET r1 == validateGateOutputWeight(r, gateId, edgeId, weight)
  IN IF r1.err # NoError THEN r1
     ELSE [r1 EXCEPT !.heap[gateId] = Gate_setOutput(@, edgeId, Max(0, weight))]

setGateOutputWeight(r, gateId, edgeId, weight) ==
  LET r1 == validateGateOutputWeight(r, gateId, edgeId, DEFAULT_WEIGHT)
  IN IF r1.err # NoError THEN r1
     ELSE [r1 EXCEPT !.heap[gateId] = Gate_setOutput(@, edgeId, Max(0, weight))]

(***************************************************************************)
(* Gate._randomSelect: the outputs that some value of Math.random() in     *)
(* [0, 1) selects.  With prefix sums P_i the loop stops at the first i     *)
(* with P_i > random * P_last, so exactly the outputs of positive weight   *)
(* can be selected; sum(weights) = 0 (also of no weights) gives undefined. *)
(***************************************************************************)
RECURSIVE SumWeights(_)
SumWeights(toEdges) ==
  IF toEdges = <<>> THEN 0 ELSE Head(toEdges).weight + SumWeights(Tail(toEdges))

PrefixSum(toEdges, i) == SumWeights(SubSeq(toEdges, 1, i))

\* _randomSelect that gives the first output when every weight is 0
Gate_randomSelect_first(gate) ==
  IF gate.toEdges = <<>> THEN {Undefined}
  ELSE IF SumWeights(gate.toEdges) = 0 THEN {gate.toEdges[1].id}
  ELSE {gate.toEdges[i].id : i \in
          {k \in 1..Len(gate.toEdges) :
             \E random \in 0..(SumWeights(gate.toEdges) - 1) :
               /\ PrefixSum(gate.toEdges, k) > random
               /\ \A j \in 1..(k - 1) : ~(PrefixSum(gate.toEdges, j) > random)}}

\* _randomSelect whose loop stops at the first prefix sum >= random
Gate_randomSelect_inclusive(gate) ==
  IF SumWeights(gate.toEdges) = 0 THEN {Undefined}
  ELSE {gate.toEdges[i].id : i \in
          {k \in 1..Len(gate.toEdges) :
             \E random \in 0..(SumWeights(gate.toEdges) - 1) :
               /\ PrefixSum(gate.toEdges, k) >= random
               /\ \A j \in 1..(k - 1) : ~(PrefixSum(gate.toEdges, j) >= random)}}

Gate_randomSelect(gate) ==
  IF SumWeights(gate.toEdges) = 0 THEN {Undefined}
  ELSE {gate.toEdges[i].id : i \in
          {k \in 1..Len(gate.toEdges) :
             \E random \in 0..(SumWeights(gate.toEdges) - 1) :
               /\ PrefixSum(gate.toEdges, k) > random
               /\ \A j \in 1..(k - 1) : ~(PrefixSum(gate.toEdges, j) > random)}}

(***************************************************************************)
(* Pool: state and capacity.                                               *)
(***************************************************************************)
\* setState that keeps the state below the capacity but not above 0
Pool_setState_noFloor(pool, state) ==
  [pool EXCEPT !.state = IF pool.capacity < 0 THEN state ELSE Min(pool.capacity, state)]

Pool_setState(pool, state) ==
  [pool EXCEPT !.state = IF pool.capacity < 0
                         THEN Max(0, state)
                         ELSE Max(0, Min(pool.capacity, state))]

\* setCapacity without the truncation of the state
Pool_setCapacity_keepState(pool, capacity) ==
  IF capacity < 0 THEN [pool EXCEPT !.capacity = -1]
  ELSE [pool EXCEPT !.capacity = capacity]

Pool_setCapacity(pool, capacity) ==
  IF capacity < 0 THEN [pool EXCEPT !.capacity = -1]
  ELSE [pool EXCEPT !.capacity = capacity,
                    !.state = IF @ > capacity THEN capacity ELSE @]

\* _addToPool that replaces the state by delta
Pool_addToPool_replace(pool, delta) ==
  IF delta < 0 THEN pool ELSE Pool_setState(pool, delta)

\* the pool after _addToPool(delta), which throws before it writes when
\* delta < 0
Pool_addToPool(pool, delta) ==
  IF delta < 0 THEN pool ELSE Pool_setState(pool, pool.state + delta)

\* _takeFromPool that empties the pool whatever the amount
Pool_takeFromPool_all(pool, amount) ==
  IF amount < 0 THEN pool ELSE Pool_setState(pool, 0)

\* the pool after _takeFromPool(amount), which throws before it writes when
\* amount < 0
Pool_takeFromPool(pool, amount) ==
  IF amount < 0 THEN pool ELSE Pool_setState(pool, pool.state - amount)

\* the calls with what they return: `returned` is this.state - oldState of
\* _addToPool and oldState - this.state of _takeFromPool, err the error of
\* a call that throws
Pool_addToPool_call(pool, delta) ==
  [pool |-> Pool_addToPool(pool, delta),
   returned |-> Pool_addToPool(pool, delta).state - pool.state,
   err |-> IF delta < 0 THEN "must add a non-negative number" ELSE NoError]

Pool_takeFromPool_call(pool, amount) ==
  [pool |-> Pool_takeFromPool(pool, amount),
   returned |-> pool.state - Pool_takeFromPool(pool, amount).state,
   err |-> IF amount < 0 THEN "must subtract a non-negative number" ELSE NoError]

\* Pool._nextTick: condition is the value of the condition formula, action
\* the value of the action formula in the scope of this tick
Pool_nextTick(pool, condition, action) ==
  IF condition THEN Pool_setState(pool, action) ELSE pool

(***************************************************************************)
(* The state: the graph after `new Graph()`.                               *)
(***************************************************************************)
Init ==
  /\ elements = <<>>
  /\ labels = <<>>
  /\ autoLabelCounter = [pool |-> 0, gate |-> 0, converter |-> 0, edge |-> 0, swap |-> 0]
  /\ graphClone = NoClone

Start == Run(elements, labels, autoLabelCounter)

\* the graph a call leaves behind, whether it returned or threw
Leave(r) ==
  /\ elements' = ElementsOf(r)
  /\ labels' = r.labels
  /\ autoLabelCounter' = r.autoLabelCounter
  /\ UNCHANGED graphClone

IndexArgs == {Omitted} \cup {<<k>> : k \in 0..MaxPipeIndex}
WeightArgs == {-1, 0, 1}

AddNode(type, id, label) ==
  /\ label = Omitted => autoLabelCounter[type] < MaxAuto
  /\ Leave(addNode(Start, type, id, label))

AddEdge(edgeId, fromId, toId, swapInputIndex, label) ==
  /\ label = Omitted => autoLabelCounter["edge"] < MaxAutoEdge
  /\ Leave(addEdge(Start, edgeId, fromId, toId, swapInputIndex, label))

\* the label is a required argument
SetLabel(id, label) ==
  /\ label # Omitted
  /\ Leave(setLabel(Start, id, label))

DeleteElement(id) ==
  /\ id # Undefined
  /\ Leave(deleteElement(Start, id))

SetGateOutputWeight(gateId, edgeId, weight) ==
  /\ weight \in Int
  /\ Leave(setGateOutputWeight(Start, gateId, edgeId, weight))

\* Gate._nextTick, the advance of one Gate in phase A of a tick
GateNextTick(id) ==
  /\ id \in DOMAIN elements
  /\ elements[id].type = "gate"
  /\ \E selected \in Gate_randomSelect(elements[id]) :
       elements' = [elements EXCEPT ![id].selectedToEdge = selected]
  /\ UNCHANGED <<labels, autoLabelCounter, graphClone>>

(***************************************************************************)
(* Spec: the edit operations and the advance of Gates, from the empty      *)
(* graph, with automatic labels; setLabel sets "a" or the invalid "1a".    *)
(***************************************************************************)
Next ==
  \/ \E type \in NodeType, id \in NodeIds : AddNode(type, id, Omitted)
  \/ \E edgeId \in EdgeIds, fromId \in Ids, toId \in Ids,
        swapInputIndex \in IndexArgs :
       AddEdge(edgeId, fromId, toId, swapInputIndex, Omitted)
  \/ \E id \in Ids, label \in UserLabels : SetLabel(id, label)
  \/ \E id \in Ids : DeleteElement(id)
  \/ \E gateId \in NodeIds, edgeId \in EdgeIds, weight \in WeightArgs :
       SetGateOutputWeight(gateId, edgeId, weight)
  \/ \E id \in NodeIds : GateNextTick(id)

Spec == Init /\ [][Next]_vars

(***************************************************************************)
(* LabelSpec: the operations that write the label registry, with labels    *)
(* the caller passes: "a" or "b" for a node, "a" or none for an edge, and  *)
(* "a" or the invalid "1a" in setLabel.                                    *)
(***************************************************************************)
LabelNext ==
  \/ \E type \in NodeType, id \in NodeIds, label \in {<<"a">>, <<"b">>} :
       AddNode(type, id, label)
  \/ \E edgeId \in EdgeIds, fromId \in NodeIds, toId \in NodeIds,
        label \in {Omitted, <<"a">>} :
       AddEdge(edgeId, fromId, toId, Omitted, label)
  \/ \E id \in Ids, label \in UserLabels : SetLabel(id, label)
  \/ \E id \in Ids : DeleteElement(id)

LabelSpec == Init /\ [][LabelNext]_vars

(***************************************************************************)
(* PoolSpec: Pools and the calls that write their state and capacity.      *)
(* A tick advances every Pool (Pool._nextTick), then the executor takes    *)
(* from the Pools that are sources (_takeFromPool of the edge's rate, or   *)
(* of the whole state) and adds the packets that arrived (_addToPool):     *)
(* here it may take and add any amounts.  Amounts are integers from -1 to  *)
(* MaxAmount + 1.                                                          *)
(***************************************************************************)
Amounts == (-1)..(MaxAmount + 1)
Pools == {id \in DOMAIN elements : elements[id].type = "pool"}

WritePool(id, pool) ==
  /\ id \in Pools
  /\ pool.state <= MaxAmount + 1
  /\ elements' = [elements EXCEPT ![id] = pool]
  /\ UNCHANGED <<labels, autoLabelCounter, graphClone>>

PoolSetState(id, state) ==
  id \in Pools /\ WritePool(id, Pool_setState(elements[id], state))

PoolSetCapacity(id, capacity) ==
  id \in Pools /\ WritePool(id, Pool_setCapacity(elements[id], capacity))

PoolAddToPool(id, delta) ==
  id \in Pools /\ WritePool(id, Pool_addToPool(elements[id], delta))

PoolTakeFromPool(id, amount) ==
  id \in Pools /\ WritePool(id, Pool_takeFromPool(elements[id], amount))

PoolAdvance(id, condition, action) ==
  id \in Pools /\ WritePool(id, Pool_nextTick(elements[id], condition, action))

\* one Pool through a tick: advanced, then taken from (all of its state over
\* an unlimited edge, whose rate is negative), then added to; <<>> where the
\* executor does not make the call
PoolThroughTick(pool, condition, action, take, add) ==
  LET advanced == Pool_nextTick(pool, condition, action)
      taken == IF take = Omitted THEN advanced
               ELSE IF take[1] < 0 THEN Pool_takeFromPool(advanced, advanced.state)
               ELSE Pool_takeFromPool(advanced, take[1])
  IN IF add = Omitted THEN taken ELSE Pool_addToPool(taken, add[1])

TickArgs ==
  [condition : BOOLEAN, action : {0, MaxAmount + 1},
   take : {Omitted, <<-1>>, <<1>>}, add : {Omitted, <<1>>}]

NextTick ==
  /\ Pools # {}
  /\ \E args \in [Pools -> TickArgs] :
       LET after == [id \in Pools |->
                       PoolThroughTick(elements[id], args[id].condition,
                                       args[id].action, args[id].take,
                                       args[id].add)]
       IN /\ \A id \in Pools : after[id].state <= MaxAmount + 1
          /\ elements' = [id \in DOMAIN elements |->
                            IF id \in Pools THEN after[id] ELSE elements[id]]
  /\ UNCHANGED <<labels, autoLabelCounter, graphClone>>

PoolNext ==
  \/ \E id \in NodeIds, label \in {<<"a">>, <<"b">>} : AddNode("pool", id, label)
  \/ \E id \in NodeIds, state \in Amounts : PoolSetState(id, state)
  \/ \E id \in NodeIds, capacity \in Amounts : PoolSetCapacity(id, capacity)
  \/ \E id \in NodeIds, delta \in Amounts : PoolAddToPool(id, delta)
  \/ \E id \in NodeIds, amount \in Amounts : PoolTakeFromPool(id, amount)
  \/ \E id \in NodeIds, condition \in BOOLEAN, action \in Amounts :
       PoolAdvance(id, condition, action)
  \/ NextTick

PoolSpec == Init /\ [][PoolNext]_vars

(***************************************************************************)
(* GateSpec: one Gate and the methods of its class: outputs are set with   *)
(* a weight and deleted, and the Gate advances.                            *)
(***************************************************************************)
MaxWeight == 2
Weights == (-1)..MaxWeight

WriteGate(id, gate) ==
  /\ id \in DOMAIN elements
  /\ elements[id].type = "gate"
  /\ elements' = [elements EXCEPT ![id] = gate]
  /\ UNCHANGED <<labels, autoLabelCounter, graphClone>>

GateSetOutput(id, edgeId, weight) ==
  /\ id \in DOMAIN elements
  /\ WriteGate(id, Gate_setOutput(elements[id], edgeId, weight))

GateDeleteOutput(id, edgeId) ==
  /\ id \in DOMAIN elements
  /\ WriteGate(id, Gate_deleteOutput(elements[id], edgeId))

GateNext ==
  \/ \E id \in NodeIds : AddNode("gate", id, <<"a">>)
  \/ \E id \in NodeIds, edgeId \in EdgeIds, weight \in Weights :
       GateSetOutput(id, edgeId, weight)
  \/ \E id \in NodeIds, edgeId \in EdgeIds : GateDeleteOutput(id, edgeId)
  \/ \E id \in NodeIds : GateNextTick(id)

GateSpec == Init /\ [][GateNext]_vars

(***************************************************************************)
(* The claims.  Vocabulary first: the live edges, the edge ids a node       *)
(* records on its input and on its output side.                            *)
(***************************************************************************)
Live == DOMAIN elements
LiveEdges == {id \in Live : elements[id].type = "edge"}
TypeOf(id) == IF id \in Live THEN elements[id].type ELSE Undefined

InputSide(n) ==
  CASE n.type \in {"pool", "gate"} -> {n.fromEdge} \ {Undefined}
    [] n.type = "converter" -> SeqToSet(n.fromEdges)
    [] n.type = "swap" -> {n.pipes[i].in : i \in 1..Len(n.pipes)} \ {Undefined}
    [] OTHER -> {}

OutputSide(n) ==
  CASE n.type \in {"pool", "converter"} -> {n.toEdge} \ {Undefined}
    [] n.type = "gate" -> SeqToSet(OutputKeys(n))
    [] n.type = "swap" -> {n.pipes[i].out : i \in 1..Len(n.pipes)} \ {Undefined}
    [] OTHER -> {}

\* C1: every edge stored in `elements` has `from` and `to` ids that are
\* present in `elements`, refer to non-edge elements, and differ.
C1_EdgeEndpointsLive ==
  \A e \in LiveEdges :
    /\ elements[e].fromNode \in Live \ LiveEdges
    /\ elements[e].toNode \in Live \ LiveEdges
    /\ elements[e].fromNode # elements[e].toNode

\* C2: for every Pool, Gate and Converter n, each edge id on n's input side
\* is a live edge with to = n, each edge id on n's output side is a live edge
\* with from = n, and every live edge is recorded on the output side of its
\* `from` node and on the input side of its `to` node.
C2_SlotsMatchEdges ==
  /\ \A n \in Live :
       elements[n].type \in {"pool", "gate", "converter"} =>
         /\ \A e \in InputSide(elements[n]) :
              e \in LiveEdges /\ elements[e].toNode = n
         /\ \A e \in OutputSide(elements[n]) :
              e \in LiveEdges /\ elements[e].fromNode = n
  /\ \A e \in LiveEdges :
       /\ TypeOf(elements[e].fromNode) \in {"pool", "gate", "converter"} =>
            e \in OutputSide(elements[elements[e].fromNode])
       /\ TypeOf(elements[e].toNode) \in {"pool", "gate", "converter"} =>
            e \in InputSide(elements[elements[e].toNode])

\* C3: among the live edges at most one has a given Pool as destination, at
\* most one a given Pool as source, at most one a given Gate as destination
\* and at most one a given Converter as source.
C3_SingleSlotMultiplicity ==
  \A n \in Live :
    /\ elements[n].type \in {"pool", "gate"} =>
         Cardinality({e \in LiveEdges : elements[e].toNode = n}) <= 1
    /\ elements[n].type \in {"pool", "converter"} =>
         Cardinality({e \in LiveEdges : elements[e].fromNode = n}) <= 1

\* C4: `labels` and `elements` have the same number of entries, and
\* labels[l] = id exactly when element id is live and its label is l.
C4_LabelsMatchElements ==
  /\ Cardinality(DOMAIN labels) = Cardinality(Live)
  /\ \A l \in DOMAIN labels :
       labels[l] \in Live /\ elements[labels[l]].label = l
  /\ \A id \in Live :
       elements[id].label \in DOMAIN labels /\ labels[elements[id].label] = id

\* C8: every Gate's selected output is none, or the id of a live edge that is
\* a key of the Gate's output-weight map.
C8_SelectedOutputLive ==
  \A n \in Live :
    elements[n].type = "gate" =>
      \/ elements[n].selectedToEdge = Undefined
      \/ /\ elements[n].selectedToEdge \in LiveEdges
         /\ elements[n].selectedToEdge \in SeqToSet(OutputKeys(elements[n]))

\* C9: for every Swap S and every live edge e, e has to = S exactly when
\* exactly one pipe of S has in = e, and e has from = S exactly when exactly
\* one pipe of S has out = e.
C9_PipesMatchEdges ==
  \A S \in Live :
    elements[S].type = "swap" =>
      LET pipes == elements[S].pipes
      IN \A e \in LiveEdges :
           /\ elements[e].toNode = S <=>
                Cardinality({i \in 1..Len(pipes) : pipes[i].in = e}) = 1
           /\ elements[e].fromNode = S <=>
                Cardinality({i \in 1..Len(pipes) : pipes[i].out = e}) = 1

\* a call seen from the state it is made in: whether it raised, and whether
\* it left the graph as it was
Raised(r) == r.err # NoError

SameGraph(r) ==
  /\ ElementsOf(r) = elements
  /\ r.labels = labels
  /\ r.autoLabelCounter = autoLabelCounter

\* C5: whenever addNode, addEdge, setLabel or setGateOutputWeight raises, the
\* graph is left as it was before the call: elements with their slots,
\* weights and pipes, labels, auto-label counters.
C5_ErrorLeavesGraph ==
  /\ \A type \in NodeType, id \in NodeIds :
       LET r == addNode(Start, type, id, Omitted)
       IN Raised(r) => SameGraph(r)
  /\ \A edgeId \in EdgeIds, fromId \in Ids, toId \in Ids,
        swapInputIndex \in IndexArgs :
       LET r == addEdge(Start, edgeId, fromId, toId, swapInputIndex, Omitted)
       IN Raised(r) => SameGraph(r)
  /\ \A id \in Ids, label \in UserLabels :
       LET r == setLabel(Start, id, label)
       IN Raised(r) => SameGraph(r)
  /\ \A gateId \in NodeIds, edgeId \in EdgeIds, weight \in WeightArgs :
       LET r == setGateOutputWeight(Start, gateId, edgeId, weight)
       IN Raised(r) => SameGraph(r)

\* the edge attached to one side of pipe swapInputIndex of a Swap, if any
PipeSlot(swapId, swapInputIndex, side) ==
  LET pipes == elements[swapId].pipes
  IN IF swapInputIndex # Omitted /\ swapInputIndex[1] + 1 <= Len(pipes)
     THEN {pipes[swapInputIndex[1] + 1][side]} \ {Undefined}
     ELSE {}

\* the live edges that a new edge from fromId to toId conflicts with: the
\* output edge of a Pool, Converter or pipe source, the input edge of a Pool,
\* Gate or pipe destination
Conflicts(fromId, toId, swapInputIndex) ==
  {x \in LiveEdges :
     \/ TypeOf(fromId) \in {"pool", "converter"} /\ elements[x].fromNode = fromId
     \/ TypeOf(toId) \in {"pool", "gate"} /\ elements[x].toNode = toId
     \/ TypeOf(fromId) = "swap" /\ x \in PipeSlot(fromId, swapInputIndex, "out")
     \/ TypeOf(toId) = "swap" /\ x \in PipeSlot(toId, swapInputIndex, "in")}

\* C6: a successful addEdge(e, from, to) removes exactly the edges that
\* conflict with e, clearing each from `elements`, `labels` and the slots of
\* every node; every element other than e, from, to and the other endpoints
\* of the removed edges is unchanged.
C6_AddEdgeDisplacesConflicts ==
  \A edgeId \in EdgeIds, fromId \in Ids, toId \in Ids,
     swapInputIndex \in IndexArgs :
    LET r == addEdge(Start, edgeId, fromId, toId, swapInputIndex, Omitted)
        after == ElementsOf(r)
        gone == Conflicts(fromId, toId, swapInputIndex)
        touched == {edgeId, fromId, toId}
                     \cup {elements[x].fromNode : x \in gone}
                     \cup {elements[x].toNode : x \in gone}
    IN ~Raised(r) =>
         /\ DOMAIN after = (Live \ gone) \cup {edgeId}
         /\ DOMAIN r.labels =
              (DOMAIN labels \ {elements[x].label : x \in gone})
                \cup {after[edgeId].label}
         /\ \A n \in DOMAIN after :
              (InputSide(after[n]) \cup OutputSide(after[n])) \cap gone = {}
         /\ \A n \in DOMAIN after \ touched : after[n] = elements[n]

\* C7: deleteElement(id) on a live node removes that node and every edge
\* whose from or to is that node, on a live edge only that edge, on an id
\* that is not live nothing; it returns the removed ids without duplicates,
\* and no surviving node records a removed edge.
C7_DeleteRemovesIncidentEdges ==
  \A id \in Ids :
    LET r == deleteElement(Start, id)
        after == ElementsOf(r)
        expected ==
          IF id \notin Live THEN {}
          ELSE IF id \in LiveEdges THEN {id}
          ELSE {id} \cup {x \in LiveEdges : elements[x].fromNode = id
                                             \/ elements[x].toNode = id}
    IN /\ DOMAIN after = Live \ expected
       /\ SeqToSet(r.deleted) = expected
       /\ Len(r.deleted) = Cardinality(expected)
       /\ \A n \in DOMAIN after :
            (InputSide(after[n]) \cup OutputSide(after[n])) \cap expected = {}
       /\ id \notin Live => SameGraph(r)

\* C10: after any sequence of setState, setCapacity, _addToPool,
\* _takeFromPool, Pool._nextTick and nextTick calls with finite amounts, every
\* Pool has state >= 0, and state <= capacity whenever capacity >= 0.
C10_PoolStateWithinCapacity ==
  \A id \in Pools :
    /\ elements[id].state >= 0
    /\ elements[id].capacity >= 0 => elements[id].state <= elements[id].capacity

\* a Pool filled to a positive capacity, beside a Pool without a capacity
\* that holds more
C10_PoolFull ==
  \E id \in Pools, other \in Pools :
    /\ elements[id].capacity = 1
    /\ elements[id].state = 1
    /\ elements[other].capacity = -1
    /\ elements[other].state > 1

(***************************************************************************)
(* Quantities of the tick.  States, rates, amounts and packet values are   *)
(* whole numbers; a quotient is kept as a pair <<n, d>> until the code     *)
(* uses it, and a run whose quotient is a fraction clears r.whole, which   *)
(* the tick action requires.                                               *)
(***************************************************************************)
Edge_setRate(edge, rate) == [edge EXCEPT !.rate = IF rate >= 0 THEN rate ELSE -1]

Edge_isUnlimited(edge) == edge.rate < 0

Edge_setCondition(edge, condition) == [edge EXCEPT !.condition = condition]

\* the value of the formula; "true" and "false" use no variable of the scope
Edge_evaluateCondition(edge) == edge.condition = "true"

\* value of this[key][token] of an object kept as a sequence of entries
EntryOf(entries, token) == entries[FirstIndex(entries, "token", token)]

HasEntry(entries, token) == FirstIndex(entries, "token", token) # 0

\* Converter._setRequiredInputPerUnit, which throws before it writes when
\* value <= 0
Converter_setRequiredInputPerUnit(converter, token, value) ==
  IF value <= 0 THEN converter
  ELSE LET i == FirstIndex(converter.requiredInputPerUnit, "token", token)
       IN IF i = 0
          THEN [converter EXCEPT !.requiredInputPerUnit =
                  Append(@, [token |-> token, value |-> value])]
          ELSE [converter EXCEPT !.requiredInputPerUnit[i].value = value]

\* Converter._addToBuffer, which throws before it writes when amount < 0
Converter_addToBuffer(converter, token, amount) ==
  IF amount < 0 THEN converter
  ELSE LET i == FirstIndex(converter.buffer, "token", token)
       IN IF i = 0
          THEN [converter EXCEPT !.buffer =
                  Append(@, [token |-> token, amount |-> 0 + amount])]
          ELSE [converter EXCEPT !.buffer[i].amount = @ + amount]

\* the condition is a formula; the model has the formulas "true" and "false"
Converter_setCondition(converter, condition) == [converter EXCEPT !.condition = condition]

\* Converter.maximumConvertable: the least buffer[id] / value as a pair
\* <<n, d>>, <<0, 1>> when the condition is false, when a required token
\* is missing in the buffer or when nothing is required
Converter_maximumConvertable(converter) ==
  LET req == converter.requiredInputPerUnit
      ratio == [i \in 1..Len(req) |->
                  <<EntryOf(converter.buffer, req[i].token).amount, req[i].value>>]
  IN IF converter.condition # "true" THEN <<0, 1>>
     ELSE IF \E i \in 1..Len(req) : ~HasEntry(converter.buffer, req[i].token)
     THEN <<0, 1>>
     ELSE IF Len(req) = 0 THEN <<0, 1>>
     ELSE ratio[CHOOSE i \in 1..Len(req) :
                  /\ \A j \in 1..Len(req) :
                       ratio[i][1] * ratio[j][2] <= ratio[j][1] * ratio[i][2]
                  /\ \A j \in 1..(i - 1) :
                       ~(ratio[j][1] * ratio[i][2] <= ratio[i][1] * ratio[j][2])]

\* Math.min(amount, maxConvertable) for a quotient amount = <<n, d>>
MinOfQuotients(amount, maxConvertable) ==
  IF amount[1] * maxConvertable[2] <= maxConvertable[1] * amount[2]
  THEN amount ELSE maxConvertable

IsWhole(q) == q[1] % q[2] = 0

WholeOf(q) == q[1] \div q[2]

\* the loop of consumeBuffer over the entries of the buffer from index i
RECURSIVE ConsumeEntries(_, _, _, _)
ConsumeEntries(buffer, required, unitsProduced, i) ==
  IF i > Len(buffer) THEN buffer
  ELSE CHOOSE done \in
         {ConsumeEntries(next, required, unitsProduced, i + 1) :
            next \in {IF HasEntry(required, buffer[i].token)
                      THEN [buffer EXCEPT ![i].amount =
                              @ - EntryOf(required, buffer[i].token).value * unitsProduced]
                      ELSE buffer}} : TRUE

\* consumeBuffer that takes unitsProduced of every token, whatever a unit
\* requires
Converter_consumeBuffer_oneEach(converter, unitsProduced) ==
  IF unitsProduced <= 0 THEN converter
  ELSE [converter EXCEPT !.buffer =
          ConsumeEntries(@, [i \in DOMAIN converter.requiredInputPerUnit |->
                               [converter.requiredInputPerUnit[i] EXCEPT !.value = 1]],
                         unitsProduced, 1)]

Converter_consumeBuffer(converter, unitsProduced) ==
  IF unitsProduced <= 0 THEN converter
  ELSE [converter EXCEPT !.buffer =
          ConsumeEntries(@, converter.requiredInputPerUnit, unitsProduced, 1)]

\* _takeFromState that takes all that can be converted, whatever is asked
Converter_takeFromState_all(converter, amount) ==
  LET taken == Converter_maximumConvertable(converter)
  IN [converter |-> Converter_consumeBuffer(converter, WholeOf(taken)),
      taken |-> WholeOf(taken),
      whole |-> IsWhole(taken)]

\* Converter._takeFromState(amount, scope) for a quotient amount: the
\* converter after the call, the number taken and whether it is whole
Converter_takeFromState(converter, amount) ==
  LET maxConvertable == Converter_maximumConvertable(converter)
      taken == MinOfQuotients(amount, maxConvertable)
  IN [converter |-> Converter_consumeBuffer(converter, WholeOf(taken)),
      taken |-> WholeOf(taken),
      whole |-> IsWhole(taken)]

(***************************************************************************)
(* A number taken that is no whole number.  The amounts of JavaScript are  *)
(* binary floating-point numbers with a significand of 53 digits; a        *)
(* quotient and a product are rounded to the nearest of them, ties to the  *)
(* even one.  A number is the record of its digits, the highest first, and *)
(* the power of 2 they are multiplied with.                                *)
(***************************************************************************)
\* the number of bits of the significand of a JavaScript number
SignificandBits == 53

\* the digits are worked on in limbs of LimbBits digits
LimbBits == 13
LimbBase == 2 ^ LimbBits
\* the limbs that hold a significand, a guard digit and the leading zeros
LimbCount == 6

RECURSIVE BitsOf(_)
\* the binary digits of a whole number, the highest first; none for 0
BitsOf(n) == IF n = 0 THEN <<>> ELSE Append(BitsOf(n \div 2), n % 2)

\* the LimbBits digits of a limb
BitsOfLimb(limb) == [j \in 1..LimbBits |-> (limb \div (2 ^ (LimbBits - j))) % 2]

\* the digits of a list of limbs
BitsOfLimbs(limbs) ==
  [i \in 1..(LimbBits * Len(limbs)) |->
     BitsOfLimb(limbs[((i - 1) \div LimbBits) + 1])[((i - 1) % LimbBits) + 1]]

RECURSIVE ValueOfBits(_)
\* the whole number with the given digits
ValueOfBits(bits) ==
  IF bits = <<>> THEN 0
  ELSE 2 * ValueOfBits(SubSeq(bits, 1, Len(bits) - 1)) + bits[Len(bits)]

\* the limbs of a list of digits, zeros put before it to fill the first limb
LimbsOfBits(bits) ==
  LET count == (Len(bits) + LimbBits - 1) \div LimbBits
      padded == [i \in 1..(count * LimbBits - Len(bits)) |-> 0] \o bits
  IN [k \in 1..count |-> ValueOfBits(SubSeq(padded, (k - 1) * LimbBits + 1, k * LimbBits))]

\* a list of digits without the zeros it begins with
Stripped(bits) ==
  IF \A i \in DOMAIN bits : bits[i] = 0 THEN <<>>
  ELSE SubSeq(bits, CHOOSE i \in DOMAIN bits : bits[i] = 1 /\ \A j \in 1..(i - 1) : bits[j] = 0,
              Len(bits))

\* the digits of the number after the one with the given digits; the list
\* grows by one when every digit is 1
PlusOne(bits) ==
  IF \A i \in DOMAIN bits : bits[i] = 1 THEN <<1>> \o [i \in DOMAIN bits |-> 0]
  ELSE LET last == CHOOSE i \in DOMAIN bits :
                     bits[i] = 0 /\ \A j \in (i + 1)..Len(bits) : bits[j] = 1
       IN [i \in DOMAIN bits |-> IF i < last THEN bits[i] ELSE IF i = last THEN 1 ELSE 0]

\* the number digits * 2^exp rounded to SignificandBits digits, to the
\* nearest, ties to even; `more` says that the number is greater than
\* digits * 2^exp by less than 2^exp
Rounded(digits, exp, more) ==
  LET bits == Stripped(digits)
      extra == Len(bits) - SignificandBits
      kept == SubSeq(bits, 1, SignificandBits)
      sticky == more \/ \E i \in (SignificandBits + 2)..Len(bits) : bits[i] = 1
      up == IF bits[SignificandBits + 1] = 1 /\ (sticky \/ kept[SignificandBits] = 1)
            THEN PlusOne(kept) ELSE kept
  IN IF extra <= 0 THEN [bits |-> bits, exp |-> exp]
     ELSE IF Len(up) > SignificandBits
     THEN [bits |-> SubSeq(up, 1, SignificandBits), exp |-> exp + extra + 1]
     ELSE [bits |-> up, exp |-> exp + extra]

RECURSIVE FractionLimbs(_, _, _, _)
\* long division: the next `count` limbs of the quotient after the limbs
\* `limbs`, and the remainder
FractionLimbs(limbs, rem, d, count) ==
  IF count = 0 THEN [limbs |-> limbs, rem |-> rem]
  ELSE FractionLimbs(Append(limbs, (rem * LimbBase) \div d), (rem * LimbBase) % d, d, count - 1)

\* the JavaScript number n / d of two whole numbers n >= 0 and d > 0
DoubleQuotient(n, d) ==
  LET fraction == FractionLimbs(<<>>, n % d, d, LimbCount)
  IN Rounded(BitsOf(n \div d) \o BitsOfLimbs(fraction.limbs),
             0 - LimbBits * LimbCount, fraction.rem # 0)

RECURSIVE TimesLimbs(_, _, _, _, _)
\* the limbs of v times the number with the limbs limbs[1..i], plus carry,
\* go before the limbs `low`
TimesLimbs(limbs, i, v, carry, low) ==
  IF i = 0 THEN <<carry>> \o low
  ELSE TimesLimbs(limbs, i - 1, v, (limbs[i] * v + carry) \div LimbBase,
                  <<(limbs[i] * v + carry) % LimbBase>> \o low)

\* the JavaScript number v * x of a whole number v > 0 and a number x
DoubleTimes(v, x) ==
  Rounded(BitsOfLimbs(TimesLimbs(LimbsOfBits(x.bits), Len(LimbsOfBits(x.bits)), v, 0, <<>>)),
          x.exp, FALSE)

\* the number with the digits a is greater than the number with the digits
\* b, both without leading zeros
Above(a, b) ==
  IF Len(a) # Len(b) THEN Len(a) > Len(b)
  ELSE \E i \in DOMAIN a : a[i] > b[i] /\ \A j \in 1..(i - 1) : a[j] = b[j]

\* the number x is greater than the whole number b
ExceedsWhole(x, b) ==
  IF x.exp >= 0 THEN Above(x.bits \o [i \in 1..x.exp |-> 0], BitsOf(b))
  ELSE Above(x.bits, BitsOf(b) \o [i \in 1..(0 - x.exp) |-> 0])

\* the tokens whose buffer entry is below 0 after _takeFromState(amount).
\* When the number taken is no whole number it is the quotient n / d of
\* maximumConvertable, and consumeBuffer leaves buffer[id] - value * (n / d)
BelowZeroAfterTake(converter, amount) ==
  LET taken == MinOfQuotients(amount, Converter_maximumConvertable(converter))
  IN IF IsWhole(taken)
     THEN {entry.token :
             entry \in {e \in SeqToSet(Converter_takeFromState(converter, amount).converter.buffer) :
                          e.amount < 0}}
     ELSE {required.token :
             required \in
               {q \in SeqToSet(converter.requiredInputPerUnit) :
                  ExceedsWhole(DoubleTimes(q.value, DoubleQuotient(taken[1], taken[2])),
                               EntryOf(converter.buffer, q.token).amount)}}

\* Swap.setTokenA and setTokenB, which throw before they write when the
\* other side has the same token
Swap_setTokenA(swap, token) ==
  IF token = swap.tokenB.token THEN swap ELSE [swap EXCEPT !.tokenA.token = token]

Swap_setTokenB(swap, token) ==
  IF token = swap.tokenA.token THEN swap ELSE [swap EXCEPT !.tokenB.token = token]

\* Swap.setTokenAAmount and setTokenBAmount, which throw before they write
\* when amount <= 0
Swap_setTokenAAmount(swap, amount) ==
  IF amount <= 0 THEN swap
  ELSE [swap EXCEPT !.tokenA.amount = amount,
                    !.constraint = amount * swap.tokenB.amount]

Swap_setTokenBAmount(swap, amount) ==
  IF amount <= 0 THEN swap
  ELSE [swap EXCEPT !.tokenB.amount = amount,
                    !.constraint = swap.tokenA.amount * amount]

\* Swap.validateSwapConfig: TRUE when it returns, FALSE when it throws
Swap_validateSwapConfig(swap) ==
  /\ swap.tokenA.token # UndefinedToken /\ swap.tokenB.token # UndefinedToken
  /\ swap.tokenA.amount > 0 /\ swap.tokenB.amount > 0
  /\ swap.constraint > 0

\* Swap.swap that divides the constraint by the amount before the call
Swap_swap_stale(swap, amount, token) ==
  IF \/ ~Swap_validateSwapConfig(swap)
     \/ amount <= 0
     \/ (token # swap.tokenA.token /\ token # swap.tokenB.token)
  THEN [swap |-> swap, swapped |-> FALSE, token |-> UndefinedToken, amount |-> 0,
        whole |-> TRUE]
  ELSE IF token = swap.tokenA.token
  THEN LET a == swap.tokenA.amount + amount
           b == swap.constraint \div swap.tokenA.amount
       IN [swap |-> [swap EXCEPT !.tokenA.amount = a, !.tokenB.amount = b],
           swapped |-> TRUE, token |-> swap.tokenB.token,
           amount |-> swap.tokenB.amount - b,
           whole |-> swap.constraint % swap.tokenA.amount = 0]
  ELSE LET b == swap.tokenB.amount + amount
           a == swap.constraint \div swap.tokenB.amount
       IN [swap |-> [swap EXCEPT !.tokenB.amount = b, !.tokenA.amount = a],
           swapped |-> TRUE, token |-> swap.tokenA.token,
           amount |-> swap.tokenA.amount - a,
           whole |-> swap.constraint % swap.tokenB.amount = 0]

\* Swap.swap(amount, token, scope) with the default condition `true`:
\* swapped is FALSE when the method returns undefined; a quotient that is
\* not whole is rounded to a number of the model, as the code rounds it to
\* a double, and `whole` is FALSE
Swap_swap(swap, amount, token) ==
  IF \/ ~Swap_validateSwapConfig(swap)
     \/ amount <= 0
     \/ (token # swap.tokenA.token /\ token # swap.tokenB.token)
  THEN [swap |-> swap, swapped |-> FALSE, token |-> UndefinedToken, amount |-> 0,
        whole |-> TRUE]
  ELSE IF token = swap.tokenA.token
  THEN LET a == swap.tokenA.amount + amount
           b == swap.constraint \div a
       IN [swap |-> [swap EXCEPT !.tokenA.amount = a, !.tokenB.amount = b],
           swapped |-> TRUE, token |-> swap.tokenB.token,
           amount |-> swap.tokenB.amount - b,
           whole |-> swap.constraint % a = 0]
  ELSE LET b == swap.tokenB.amount + amount
           a == swap.constraint \div b
       IN [swap |-> [swap EXCEPT !.tokenB.amount = b, !.tokenA.amount = a],
           swapped |-> TRUE, token |-> swap.tokenA.token,
           amount |-> swap.tokenA.amount - a,
           whole |-> swap.constraint % b = 0]

(***************************************************************************)
(* Graph.setConverterRequiredInputPerUnit and its validation.  Ids are     *)
(* strings of the model and tokens are sequences of characters; IdText     *)
(* gives the characters of the ids of the edges that enter Converters.     *)
(***************************************************************************)
IdText ==
  [id \in {"p0-c0", "p1-c0", "c1-c0"} |->
     CASE id = "p0-c0" -> <<"p", "0", "-", "c", "0">>
       [] id = "p1-c0" -> <<"p", "1", "-", "c", "0">>
       [] id = "c1-c0" -> <<"c", "1", "-", "c", "0">>]

\* the id that a token, used as a key of fromEdges, names
IdOfText(token) ==
  IF \E id \in DOMAIN IdText : IdText[id] = token
  THEN CHOOSE id \in DOMAIN IdText : IdText[id] = token
  ELSE Undefined

RECURSIVE upStreamTokenOf(_, _)
upStreamTokenOf(r, element) ==
  LET e == getElement(r, element)
  IN CASE e.type \in {"converter", "pool"} -> {e.token}
       [] e.type = "gate" ->
            IF e.fromEdge # Undefined THEN upStreamTokenOf(r, e.fromEdge) ELSE {}
       [] e.type = "edge" -> upStreamTokenOf(r, e.fromNode)
       [] OTHER -> {}

RECURSIVE upStreamCalls(_, _, _)
\* the arguments of the nested calls that upStreamTokenOf(element) makes,
\* the outermost first, after the calls `calls`, as far as the first call
\* whose argument was the argument of a call that has not returned
upStreamCalls(r, element, calls) ==
  LET e == getElement(r, element)
  IN IF element \in SeqToSet(calls) THEN Append(calls, element)
     ELSE IF e.type = "gate" /\ e.fromEdge # Undefined
     THEN upStreamCalls(r, e.fromEdge, Append(calls, element))
     ELSE IF e.type = "edge"
     THEN upStreamCalls(r, e.fromNode, Append(calls, element))
     ELSE Append(calls, element)

\* upStreamTokenOf(element) returns: no call is made from within a call
\* with the same argument.  The graph does not change during the calls, so
\* a call within a call of the same argument is made again without end
upStreamTokenOfReturns(r, element) ==
  \A calls \in {upStreamCalls(r, element, <<>>)} :
    calls[Len(calls)] \notin SeqToSet(SubSeq(calls, 1, Len(calls) - 1))

\* upStreamTokensOfConverter(converterId) returns
upStreamTokensOfConverterReturns(r, converterId) ==
  \A edge \in SeqToSet(r.heap[converterId].fromEdges) : upStreamTokenOfReturns(r, edge)

\* the set that upStreamTokensOfConverter returns for a Converter
upStreamTokensOfConverter(r, converterId) ==
  UNION {upStreamTokenOf(r, edge) : edge \in SeqToSet(r.heap[converterId].fromEdges)}

\* the tokens that the Converter requires already are looked up in the
\* available tokens; the parameter `token` is not
validateConverterRequiredInputPerUnit(r, converterId, token) ==
  IF getElement(r, converterId).type # "converter"
  THEN Throw(r, "Selected element is not a converter")
  ELSE IF \E i \in DOMAIN r.heap[converterId].requiredInputPerUnit :
            r.heap[converterId].requiredInputPerUnit[i].token
              \notin upStreamTokensOfConverter(r, converterId)
  THEN Throw(r, "not available")
  ELSE r

\* Converter.deleteRequiredInputPerUnit
Converter_deleteRequiredInputPerUnit(converter, token) ==
  [converter EXCEPT !.requiredInputPerUnit = SelectSeq(@, LAMBDA entry : entry.token # token)]

setConverterRequiredInputPerUnit(r, converterId, inputId, amount) ==
  LET r1 == validateConverterRequiredInputPerUnit(r, converterId, inputId)
  IN IF r1.err # NoError THEN r1
     ELSE IF amount > 0
     THEN [r1 EXCEPT !.heap[converterId] =
             Converter_setRequiredInputPerUnit(@, inputId, amount)]
     ELSE [r1 EXCEPT !.heap[converterId] = Converter_deleteInput(@, IdOfText(inputId))]

(***************************************************************************)
(* ConverterSpec: one Converter and the methods of its class.  The amounts *)
(* of the buffer stay below MaxBuffer.                                     *)
(***************************************************************************)
MaxBuffer == 4
MaxRequired == 2
MaxTake == 3
ConverterTokens == {<<"x">>, <<"y">>}

WriteConverter(id, converter) ==
  /\ id \in DOMAIN elements
  /\ elements[id].type = "converter"
  /\ \A i \in DOMAIN converter.buffer : converter.buffer[i].amount <= MaxBuffer
  /\ elements' = [elements EXCEPT ![id] = converter]
  /\ UNCHANGED <<labels, autoLabelCounter, graphClone>>

ConverterSetRequired(id, token, value) ==
  /\ id \in DOMAIN elements
  /\ WriteConverter(id, Converter_setRequiredInputPerUnit(elements[id], token, value))

ConverterDeleteRequired(id, token) ==
  /\ id \in DOMAIN elements
  /\ WriteConverter(id, Converter_deleteRequiredInputPerUnit(elements[id], token))

ConverterAddToBuffer(id, token, amount) ==
  /\ id \in DOMAIN elements
  /\ WriteConverter(id, Converter_addToBuffer(elements[id], token, amount))

ConverterSetCondition(id, condition) ==
  /\ id \in DOMAIN elements
  /\ WriteConverter(id, Converter_setCondition(elements[id], condition))

\* the calls of the model are those that take a whole number
ConverterTakeFromState(id, amount) ==
  /\ id \in DOMAIN elements
  /\ elements[id].type = "converter"
  /\ \E x \in {Converter_takeFromState(elements[id], <<amount, 1>>)} :
       x.whole /\ WriteConverter(id, x.converter)

ConverterNext ==
  \/ AddNode("converter", NodeNames[1], <<"a">>)
  \/ \E token \in ConverterTokens, value \in 0..MaxRequired :
       ConverterSetRequired(NodeNames[1], token, value)
  \/ \E token \in ConverterTokens : ConverterDeleteRequired(NodeNames[1], token)
  \/ \E token \in ConverterTokens, amount \in (-1)..MaxRequired :
       ConverterAddToBuffer(NodeNames[1], token, amount)
  \/ \E condition \in {"true", "false"} : ConverterSetCondition(NodeNames[1], condition)
  \/ \E amount \in 0..MaxTake : ConverterTakeFromState(NodeNames[1], amount)

ConverterSpec == Init /\ [][ConverterNext]_vars

(***************************************************************************)
(* StockSpec: one Converter with one required token, whose buffer holds up *)
(* to MaxStock and whose requirement per unit goes up to MaxPerUnit.       *)
(***************************************************************************)
MaxStock == 7
MaxPerUnit == 25

WriteStock(id, converter) ==
  /\ id \in DOMAIN elements
  /\ elements[id].type = "converter"
  /\ \A i \in DOMAIN converter.buffer : converter.buffer[i].amount <= MaxStock
  /\ elements' = [elements EXCEPT ![id] = converter]
  /\ UNCHANGED <<labels, autoLabelCounter, graphClone>>

StockSetRequired(id, token, value) ==
  /\ id \in DOMAIN elements
  /\ WriteStock(id, Converter_setRequiredInputPerUnit(elements[id], token, value))

StockAddToBuffer(id, token, amount) ==
  /\ id \in DOMAIN elements
  /\ WriteStock(id, Converter_addToBuffer(elements[id], token, amount))

\* the calls of the model are those that take a whole number
StockTakeFromState(id, amount) ==
  /\ id \in DOMAIN elements
  /\ elements[id].type = "converter"
  /\ \E x \in {Converter_takeFromState(elements[id], <<amount, 1>>)} :
       x.whole /\ WriteStock(id, x.converter)

StockNext ==
  \/ AddNode("converter", NodeNames[1], <<"a">>)
  \/ \E value \in 0..MaxPerUnit : StockSetRequired(NodeNames[1], <<"x">>, value)
  \/ \E amount \in (-1)..MaxStock : StockAddToBuffer(NodeNames[1], <<"x">>, amount)
  \/ \E amount \in 0..MaxStock : StockTakeFromState(NodeNames[1], amount)

StockSpec == Init /\ [][StockNext]_vars

(***************************************************************************)
(* SwapSpec: one Swap and the methods of its class.  The amounts stay      *)
(* below MaxBalance.                                                       *)
(***************************************************************************)
MaxBalance == 12
MaxSwapIn == 3
SwapTokens == {<<"x">>, <<"y">>}

WriteSwap(id, swap) ==
  /\ id \in DOMAIN elements
  /\ elements[id].type = "swap"
  /\ swap.tokenA.amount <= MaxBalance \/ swap.tokenA.amount = elements[id].tokenA.amount
  /\ swap.tokenB.amount <= MaxBalance \/ swap.tokenB.amount = elements[id].tokenB.amount
  /\ elements' = [elements EXCEPT ![id] = swap]
  /\ UNCHANGED <<labels, autoLabelCounter, graphClone>>

SwapSetTokenA(id, token) ==
  id \in DOMAIN elements /\ WriteSwap(id, Swap_setTokenA(elements[id], token))

SwapSetTokenB(id, token) ==
  id \in DOMAIN elements /\ WriteSwap(id, Swap_setTokenB(elements[id], token))

SwapSetTokenAAmount(id, amount) ==
  id \in DOMAIN elements /\ WriteSwap(id, Swap_setTokenAAmount(elements[id], amount))

SwapSetTokenBAmount(id, amount) ==
  id \in DOMAIN elements /\ WriteSwap(id, Swap_setTokenBAmount(elements[id], amount))

\* the swaps of the model are those whose quotient is whole
SwapSwap(id, amount, token) ==
  /\ id \in DOMAIN elements
  /\ \E x \in {Swap_swap(elements[id], amount, token)} : x.whole /\ WriteSwap(id, x.swap)

SwapNext ==
  \/ AddNode("swap", NodeNames[1], <<"a">>)
  \/ \E token \in SwapTokens : SwapSetTokenA(NodeNames[1], token)
  \/ \E token \in SwapTokens : SwapSetTokenB(NodeNames[1], token)
  \/ \E amount \in 0..MaxBalance : SwapSetTokenAAmount(NodeNames[1], amount)
  \/ \E amount \in 0..MaxBalance : SwapSetTokenBAmount(NodeNames[1], amount)
  \/ \E amount \in (-1)..MaxSwapIn, token \in SwapTokens :
       SwapSwap(NodeNames[1], amount, token)

SwapSpec == Init /\ [][SwapNext]_vars

(***************************************************************************)
(* The compiler.  An object of elements is the sequence of its keys in     *)
(* insertion order; the elements themselves are read from els.             *)
(***************************************************************************)
\* the order in which the ids of a graph are inserted
KeyOrder ==
  <<"p0", "p1", "p2", "c0", "c1", "c2", "g0", "s0",
    "p0-p1", "p1-p2", "p2-p0", "p0-c0", "p1-c0", "c0-g0", "g0-p0", "g0-p1",
    "c0-c1", "c1-c0", "p0-g0", "g0-c0", "g0-c1", "c0-c2", "c2-c1",
    "c0-p1", "c1-p2",
    "p0-s0", "s0-p1", "p1-s0", "s0-p0", "s0-g0", "g0-s0",
    "g0-c2", "c2-p1", "c1-s0", "s0-c0">>

\* Object.keys(graph.elements)
Keys(els) == SelectSeq(KeyOrder, LAMBDA id : id \in DOMAIN els)

\* graphElements[id] of an object with the given keys
ElementIn(els, keys, id) ==
  IF id \in SeqToSet(keys) THEN els[id] ELSE UndefinedElement

GatesOf(els) == {id \in DOMAIN els : els[id].type = "gate"}

\* one outcome of _randomSelect for every Gate
GateSelections(els) ==
  {sel \in [GatesOf(els) -> DOMAIN els \cup {Undefined}] :
     \A g \in GatesOf(els) : sel[g] \in Gate_randomSelect(els[g])}

\* the output edges a Gate disables when check mode keeps only the
\* selected output as well
DisabledOf_selected(gate, checkMode) ==
  {id \in SeqToSet(OutputKeys(gate)) : id # gate.selectedToEdge}

\* the output edges a Gate disables
DisabledOf(gate, checkMode) ==
  IF checkMode
  THEN {gate.toEdges[i].id : i \in {k \in 1..Len(gate.toEdges) : gate.toEdges[k].weight <= 0}}
  ELSE {id \in SeqToSet(OutputKeys(gate)) : id # gate.selectedToEdge}

\* the loop of activatePoolsAndGates over Object.values(graph.elements):
\* every Pool and Gate advanced; selected is the outcome of _randomSelect
\* of every Gate
RECURSIVE ActivateEach(_, _, _)
ActivateEach(els, ids, selected) ==
  IF ids = <<>> THEN els
  ELSE CHOOSE done \in
         {ActivateEach(next, Tail(ids), selected) :
            next \in {IF els[Head(ids)].type = "pool"
                      THEN [els EXCEPT ![Head(ids)] = Pool_nextTick(@, TRUE, @.state)]
                      ELSE IF els[Head(ids)].type = "gate"
                      THEN [els EXCEPT ![Head(ids)].selectedToEdge = selected[Head(ids)]]
                      ELSE els}} : TRUE

\* the keys of the elements that no Gate disables
ActiveElements(els, checkMode) ==
  CHOOSE done \in
    {SelectSeq(Keys(els), LAMBDA id : id \notin disabled) :
       disabled \in {UNION {DisabledOf(els[g], checkMode) : g \in GatesOf(els)}}} : TRUE

\* activatePoolsAndGates: the graph after the activation (unchanged in
\* check mode) and the keys of the active elements
\* activatePoolsAndGates that advances the Pools and the Gates in check
\* mode as well
activatePoolsAndGates_advancing(els, checkMode, selected) ==
  CHOOSE done \in
    {[els |-> advanced, activeElements |-> ActiveElements(advanced, checkMode)] :
       advanced \in
         {ActivateEach(els, Keys(els),
                       IF checkMode THEN CHOOSE sel \in GateSelections(els) : TRUE
                       ELSE selected)}} : TRUE

activatePoolsAndGates(els, checkMode, selected) ==
  CHOOSE done \in
    {[els |-> advanced, activeElements |-> ActiveElements(advanced, checkMode)] :
       advanced \in {IF checkMode THEN els
                     ELSE ActivateEach(els, Keys(els), selected)}} : TRUE

\* the neighbour of an Edge on the side of a Swap: the Swap with the index
\* of the first pipe whose input is the edge, if that pipe is connected on
\* both sides
SwapNeighbor(swap, swapId, currentElement) ==
  LET idx == FirstIndex(swap.pipes, "in", currentElement)
  IN IF idx # 0 /\ swap.pipes[idx].in # Undefined /\ swap.pipes[idx].out # Undefined
     THEN <<[id |-> swapId, index |-> <<idx - 1>>]>>
     ELSE <<>>

Plain(id) == [id |-> id, index |-> Omitted]

getNeighborsOf(els, keys, currentElement, cutPool, cutConverter, isCheckMode, currentSwapIndex) ==
  LET element == els[currentElement]
  IN CASE element.type = "pool" ->
            (IF element.fromEdge # Undefined /\ ~cutPool
             THEN <<Plain(element.fromEdge)>> ELSE <<>>)
            \o (IF element.toEdge # Undefined THEN <<Plain(element.toEdge)>> ELSE <<>>)
       [] element.type = "gate" ->
            (IF element.fromEdge # Undefined THEN <<Plain(element.fromEdge)>> ELSE <<>>)
            \o (IF isCheckMode
                THEN LET positive == SelectSeq(element.toEdges, LAMBDA o : o.weight > 0)
                     IN [i \in 1..Len(positive) |-> Plain(positive[i].id)]
                ELSE IF element.selectedToEdge # Undefined
                     THEN <<Plain(element.selectedToEdge)>> ELSE <<>>)
       [] element.type = "converter" ->
            [i \in 1..Len(element.fromEdges) |-> Plain(element.fromEdges[i])]
            \o (IF element.toEdge # Undefined /\ ~cutConverter
                THEN <<Plain(element.toEdge)>> ELSE <<>>)
       [] element.type = "edge" ->
            LET to == ElementIn(els, keys, element.toNode)
                from == ElementIn(els, keys, element.fromNode)
            IN (IF ~cutPool \/ to.type # "pool"
                THEN IF to.type = "swap"
                     THEN SwapNeighbor(to, element.toNode, currentElement)
                     ELSE <<Plain(element.toNode)>>
                ELSE <<>>)
               \o (IF ~cutConverter \/ from.type # "converter"
                   THEN IF from.type = "swap"
                        THEN SwapNeighbor(from, element.fromNode, currentElement)
                        ELSE <<Plain(element.fromNode)>>
                   ELSE <<>>)
       [] element.type = "swap" ->
            IF currentSwapIndex = Omitted THEN <<>>
            ELSE LET pipe == element.pipes[currentSwapIndex[1] + 1]
                 IN IF pipe.in # Undefined /\ pipe.out # Undefined
                    THEN <<Plain(pipe.in), Plain(pipe.out)>>
                    ELSE <<>>

\* the flags of one search
Search(els, keys, cutAtPoolInput, cutAtConverterOutput, isCheckMode) ==
  [els |-> els, keys |-> keys, cutAtPoolInput |-> cutAtPoolInput,
   cutAtConverterOutput |-> cutAtConverterOutput, isCheckMode |-> isCheckMode]

RECURSIVE buildGroupInner(_, _, _, _)
RECURSIVE buildGroupEach(_, _, _)

\* the loop over the neighbours
buildGroupEach(search, b, neighbors) ==
  IF neighbors = <<>> THEN b
  ELSE CHOOSE done \in
         {buildGroupEach(search, next, Tail(neighbors)) :
            next \in {buildGroupInner(search, b, Head(neighbors).id,
                                      Head(neighbors).index)}} : TRUE

\* b.group is the group built so far, b.visited the visited table.  A Swap
\* is entered as the array [id, index]: a fresh array is never found in the
\* table, so a Swap is never marked
buildGroupInner(search, b, currentElement, currentSwapIndex) ==
  IF currentElement \notin SeqToSet(search.keys) \/ currentElement \in b.visited
  THEN b
  ELSE CHOOSE done \in
         {buildGroupEach(search, entered, neighbors) :
            entered \in
              {[group |-> IF currentElement \in SeqToSet(b.group) THEN b.group
                          ELSE Append(b.group, currentElement),
                visited |-> IF currentSwapIndex # Omitted THEN b.visited
                            ELSE b.visited \cup {currentElement}]},
            neighbors \in
              {getNeighborsOf(search.els, search.keys, currentElement,
                              search.cutAtPoolInput, search.cutAtConverterOutput,
                              search.isCheckMode, currentSwapIndex)}} : TRUE

RECURSIVE CutLoop(_, _, _, _)
\* the loop of cutAtPoolInput and cutAtConverterInput over the keys
CutLoop(search, ids, visited, groups) ==
  IF ids = <<>> THEN groups
  ELSE IF Head(ids) \in visited \/ search.els[Head(ids)].type = "swap"
  THEN CutLoop(search, Tail(ids), visited, groups)
  ELSE CHOOSE done \in
         {CutLoop(search, Tail(ids), b.visited, Append(groups, b.group)) :
            b \in {buildGroupInner(search, [group |-> <<>>, visited |-> visited],
                                   Head(ids), Omitted)}} : TRUE

cutAtPoolInput(els, graphElements, isCheckMode) ==
  CutLoop(Search(els, graphElements, TRUE, FALSE, isCheckMode), graphElements, {}, <<>>)

cutAtConverterInput(els, graphElements, isCheckMode) ==
  CutLoop(Search(els, graphElements, TRUE, TRUE, isCheckMode), graphElements, {}, <<>>)

(***************************************************************************)
(* computeSubGroupOrders.  Groups are numbered from 1.                     *)
(***************************************************************************)
\* the last index of s that satisfies the test given as a set of indices
LastOf(indices) ==
  IF indices = {} THEN 0 ELSE CHOOSE i \in indices : \A j \in indices : j <= i

\* groupToConverter[groupId]: the last Converter of the subgroup
groupToConverter(els, subGroup) ==
  LET i == LastOf({k \in 1..Len(subGroup) : els[subGroup[k]].type = "converter"})
  IN IF i = 0 THEN Undefined ELSE subGroup[i]

\* the edges of a subgroup that start at a Converter or a Pool of the graph
EntryPoints(els, subGroup) ==
  SelectSeq(subGroup, LAMBDA id :
    /\ els[id].type = "edge"
    /\ els[id].fromNode \in DOMAIN els
    /\ els[els[id].fromNode].type \in {"converter", "pool"})

\* converterToGroup[converterId]: the last subgroup with an edge from it,
\* 0 when there is none
converterToGroup(els, groups, converterId) ==
  LastOf({g \in 1..Len(groups) :
            \E k \in 1..Len(groups[g]) :
              /\ els[groups[g][k]].type = "edge"
              /\ els[groups[g][k]].fromNode = converterId
              /\ converterId \in DOMAIN els
              /\ els[converterId].type = "converter"})

\* the edges of the directed graph over the subgroups; an edge to the
\* missing group of a Converter without output edge orders nothing
DependencyEdges(els, groups) ==
  {<<g, converterToGroup(els, groups, groupToConverter(els, groups[g]))>> :
     g \in {h \in 1..Len(groups) :
              /\ groupToConverter(els, groups[h]) # Undefined
              /\ converterToGroup(els, groups, groupToConverter(els, groups[h])) # 0}}

RECURSIVE ReachableFrom(_, _, _)
\* the nodes reached from the set `from` in at most n more steps
ReachableFrom(edges, from, n) ==
  IF n = 0 THEN from
  ELSE ReachableFrom(edges, from \cup {e[2] : e \in {d \in edges : d[1] \in from}}, n - 1)

hasCycle(edges, n) ==
  \E e \in edges : e[1] \in ReachableFrom(edges, {e[2]}, n)

\* the orders topologicalSort can return: every order of the groups in
\* which each edge goes forward
topologicalSort(edges, n) ==
  {order \in [1..n -> 1..n] :
     /\ \A i, j \in 1..n : i # j => order[i] # order[j]
     /\ \A e \in edges : \A i, j \in 1..n :
          order[i] = e[1] /\ order[j] = e[2] => i < j}

\* the parallel group of the subgroups `groups` with the given edges of
\* the directed graph; orders holds every groupExecutionOrder that
\* topologicalSort can give
ParallelGroup(els, groups, edges) ==
  [type |-> IF hasCycle(edges, Len(groups)) THEN "cyclic" ELSE "ordered",
   groups |-> groups,
   converterOfGroup |-> [g \in 1..Len(groups) |-> groupToConverter(els, groups[g])],
   entryPointsToGroup |-> [g \in 1..Len(groups) |-> EntryPoints(els, groups[g])],
   orders |-> IF hasCycle(edges, Len(groups)) THEN {<<>>}
              ELSE topologicalSort(edges, Len(groups))]

computeSubGroupOrders(els, groups) ==
  CHOOSE group \in
    {ParallelGroup(els, groups, edges) : edges \in {DependencyEdges(els, groups)}} : TRUE

RECURSIVE CompileLoop(_, _, _, _)
\* the loop of compileGraph over the groups of cutAtPoolInput
CompileLoop(els, poolGroups, isCheckMode, compiledGraph) ==
  IF poolGroups = <<>> THEN compiledGraph
  ELSE CHOOSE done \in
         {CompileLoop(els, Tail(poolGroups), isCheckMode, Append(compiledGraph, group)) :
            group \in
              {computeSubGroupOrders(els, converterGroups) :
                 converterGroups \in
                   {cutAtConverterInput(els, Head(poolGroups), isCheckMode)}}} : TRUE

\* compileGraph after the activation: one parallel group per group of
\* cutAtPoolInput
compileGraph(els, activeElements, isCheckMode) ==
  CHOOSE compiledGraph \in
    {CompileLoop(els, poolGroups, isCheckMode, <<>>) :
       poolGroups \in {cutAtPoolInput(els, activeElements, isCheckMode)}} : TRUE

(***************************************************************************)
(* The executor.  The run record x of a tick holds the graph (els), the    *)
(* output map the running function fills (outputs), the error thrown, the  *)
(* whole flag, and the log of the reads and writes of Pool states and      *)
(* Converter buffers in the order they happen.  An output map is the       *)
(* sequence of its entries [id, packets] in insertion order.               *)
(***************************************************************************)
\* the packet argument of a runEdge call that passes none
NoPacket == [from |-> Undefined, token |-> UndefinedToken, value |-> -1]

IsPacket(packet) == packet.value >= 0

\* x.stack holds the calls of runEdge that have not returned, each with the
\* graph it was made on, and x.ran the edge ids of all calls of the tick
TickRun(els) ==
  [els |-> els, outputs |-> <<>>, err |-> NoError, whole |-> TRUE, log |-> <<>>,
   stack |-> <<>>, ran |-> <<>>]

\* what the JavaScript engine throws when the calls nest without end
StackOverflow == "Maximum call stack size exceeded"

\* to[id].push(...packets), with to[id] = [] first when id is not a key
PushPackets(to, id, packets) ==
  LET i == FirstIndex(to, "id", id)
  IN IF i = 0 THEN Append(to, [id |-> id, packets |-> packets])
     ELSE [to EXCEPT ![i].packets = @ \o packets]

RECURSIVE mergeOutputs(_, _)
mergeOutputs(to, from) ==
  IF from = <<>> THEN to
  ELSE mergeOutputs(PushPackets(to, Head(from).id, Head(from).packets), Tail(from))

\* the source half of runEdge: the run after the source gave its value,
\* the packet, and whether runEdge returned before it reached the target
RunSource(x, edge, packet) ==
  LET fromElement == IF edge.fromNode \in DOMAIN x.els
                     THEN x.els[edge.fromNode] ELSE UndefinedElement
      empty == [from |-> edge.fromNode, token |-> <<>>, value |-> 0]
  IN CASE fromElement.type = "converter" ->
            LET t == Converter_takeFromState(fromElement,
                       IF Edge_isUnlimited(edge)
                       THEN Converter_maximumConvertable(fromElement)
                       ELSE <<edge.rate, 1>>)
            IN [x |-> [x EXCEPT !.els[edge.fromNode] = t.converter,
                                !.whole = @ /\ t.whole,
                                !.log = Append(@, [op |-> "takeFromState",
                                                   id |-> edge.fromNode,
                                                   before |-> fromElement.buffer,
                                                   amount |-> t.taken])],
                returned |-> FALSE,
                packet |-> [from |-> edge.fromNode, token |-> fromElement.token,
                            value |-> t.taken]]
       [] fromElement.type = "pool" ->
            LET after == Pool_takeFromPool(fromElement,
                           IF Edge_isUnlimited(edge) THEN fromElement.state
                           ELSE edge.rate)
            IN [x |-> [x EXCEPT !.els[edge.fromNode] = after,
                                !.log = Append(@, [op |-> "takeFromPool",
                                                   id |-> edge.fromNode,
                                                   before |-> fromElement.state,
                                                   amount |-> fromElement.state - after.state])],
                returned |-> FALSE,
                packet |-> [from |-> edge.fromNode, token |-> fromElement.token,
                            value |-> fromElement.state - after.state]]
       [] fromElement.type = "gate" ->
            IF ~IsPacket(packet)
            THEN [x |-> x, returned |-> TRUE, packet |-> empty]
            ELSE [x |-> x, returned |-> FALSE,
                  packet |-> [from |-> packet.from, token |-> packet.token,
                              value |-> IF Edge_isUnlimited(edge) THEN packet.value
                                        ELSE Min(packet.value, edge.rate)]]
       [] fromElement.type = "swap" ->
            IF ~IsPacket(packet)
            THEN [x |-> x, returned |-> TRUE, packet |-> empty]
            ELSE LET s == Swap_swap(fromElement, packet.value, packet.token)
                 IN IF ~s.swapped
                    THEN [x |-> x, returned |-> TRUE, packet |-> empty]
                    ELSE [x |-> [x EXCEPT !.els[edge.fromNode] = s.swap,
                                          !.whole = @ /\ s.whole],
                          returned |-> FALSE,
                          packet |-> [from |-> packet.from, token |-> s.token,
                                      value |-> s.amount]]
       [] fromElement.type = "edge" ->
            [x |-> [x EXCEPT !.err = "bad data structure (edge-edge connection)"],
             returned |-> TRUE, packet |-> empty]
       [] OTHER -> [x |-> x, returned |-> FALSE, packet |-> empty]

RECURSIVE runEdge(_, _, _)

\* runEdge with a target half that adds the packet to a Pool at once
\* instead of keeping it in the output map
RunTarget_addAtOnce(source, edge, edgeId) ==
  LET toElement == IF edge.toNode \in DOMAIN source.x.els
                   THEN source.x.els[edge.toNode] ELSE UndefinedElement
  IN IF source.returned \/ source.packet.value <= 0 THEN source.x
     ELSE CASE toElement.type = "gate" ->
                 IF toElement.selectedToEdge # Undefined
                 THEN runEdge(source.x, toElement.selectedToEdge, source.packet)
                 ELSE source.x
            [] toElement.type = "pool" ->
                 [source.x EXCEPT
                    !.els[edge.toNode] = Pool_addToPool(@, source.packet.value),
                    !.log = Append(@, [op |-> "addToPool", id |-> edge.toNode,
                                       before |-> toElement.state,
                                       amount |-> source.packet.value])]
            [] OTHER ->
                 [source.x EXCEPT !.outputs = PushPackets(@, edge.toNode, <<source.packet>>)]

\* the target half of runEdge, after the source gave `source`
RunTarget(source, edge, edgeId) ==
  LET toElement == IF edge.toNode \in DOMAIN source.x.els
                   THEN source.x.els[edge.toNode] ELSE UndefinedElement
  IN IF source.returned \/ source.packet.value <= 0 THEN source.x
     ELSE CASE toElement.type = "gate" ->
                 IF toElement.selectedToEdge # Undefined
                 THEN runEdge(source.x, toElement.selectedToEdge, source.packet)
                 ELSE source.x
            [] toElement.type = "swap" ->
                 IF FirstIndex(toElement.pipes, "in", edgeId) = 0
                 THEN [source.x EXCEPT !.err = "internal Error, pipe must not be undefined"]
                 ELSE IF toElement.pipes[FirstIndex(toElement.pipes, "in", edgeId)].out
                         # Undefined
                 THEN runEdge(source.x,
                              toElement.pipes[FirstIndex(toElement.pipes, "in", edgeId)].out,
                              source.packet)
                 ELSE source.x
            [] OTHER ->
                 [source.x EXCEPT !.outputs = PushPackets(@, edge.toNode, <<source.packet>>)]

\* a call of runEdge
Frame(x, edgeId, packet) == [edgeId |-> edgeId, packet |-> packet, els |-> x.els]

\* runEdge that does not evaluate the condition of the edge
runEdge_unconditioned(x, edgeId, packet) ==
  IF x.err # NoError \/ edgeId \notin DOMAIN x.els \/ x.els[edgeId].type # "edge"
  THEN x
  ELSE IF Frame(x, edgeId, packet) \in SeqToSet(x.stack)
  THEN [x EXCEPT !.err = StackOverflow]
  ELSE CHOOSE done \in
         {[returned EXCEPT !.stack = x.stack] :
            returned \in
              {RunTarget(source, x.els[edgeId], edgeId) :
                 source \in
                   {RunSource([x EXCEPT !.stack = Append(@, Frame(x, edgeId, packet)),
                                        !.ran = Append(@, edgeId)],
                              x.els[edgeId], packet)}}} : TRUE

\* a call made from within a call with the same arguments on the same graph
\* is made again without end, there being no table of visited edges
runEdge(x, edgeId, packet) ==
  IF x.err # NoError \/ edgeId \notin DOMAIN x.els \/ x.els[edgeId].type # "edge"
  THEN x
  ELSE IF Frame(x, edgeId, packet) \in SeqToSet(x.stack)
  THEN [x EXCEPT !.err = StackOverflow]
  ELSE IF ~Edge_evaluateCondition(x.els[edgeId])
  THEN [x EXCEPT !.ran = Append(@, edgeId)]
  ELSE CHOOSE done \in
         {[returned EXCEPT !.stack = x.stack] :
            returned \in
              {RunTarget(source, x.els[edgeId], edgeId) :
                 source \in
                   {RunSource([x EXCEPT !.stack = Append(@, Frame(x, edgeId, packet)),
                                        !.ran = Append(@, edgeId)],
                              x.els[edgeId], packet)}}} : TRUE

RECURSIVE RunEdges(_, _)
\* the loop of executeSubgroup over the entry points
RunEdges(x, entryPoints) ==
  IF entryPoints = <<>> THEN x
  ELSE CHOOSE done \in
         {RunEdges(next, Tail(entryPoints)) :
            next \in {runEdge(x, Head(entryPoints), NoPacket)}} : TRUE

\* executeSubgroup: x.outputs is the output map of this subgroup
executeSubgroup(x, entryPoints) == RunEdges([x EXCEPT !.outputs = <<>>], entryPoints)

RECURSIVE AddPacketsToBuffer(_, _, _)
\* converter._addToBuffer(packet.token, packet.value) of every packet
AddPacketsToBuffer(x, id, packets) ==
  IF packets = <<>> THEN x
  ELSE CHOOSE done \in
         {AddPacketsToBuffer(next, id, Tail(packets)) :
            next \in
              {[x EXCEPT !.els[id] = Converter_addToBuffer(@, Head(packets).token,
                                                           Head(packets).value),
                         !.log = Append(@, [op |-> "addToBuffer", id |-> id,
                                            before |-> x.els[id].buffer,
                                            amount |-> Head(packets).value])]}} : TRUE

\* one step of the loop of executeOrderedSubgroup over the outputs of a
\* subgroup: the packets of the subgroup's own Converter enter its buffer,
\* the others are collected in allOutputs
RouteOutput(run, output, converterId) ==
  IF /\ converterId # Undefined
     /\ output.id = converterId
     /\ run.x.els[converterId].type = "converter"
  THEN [x |-> AddPacketsToBuffer(run.x, converterId, output.packets),
        allOutputs |-> run.allOutputs]
  ELSE [x |-> run.x,
        allOutputs |-> PushPackets(run.allOutputs, output.id, output.packets)]

RECURSIVE RouteOutputs(_, _, _)
RouteOutputs(run, outputs, converterId) ==
  IF outputs = <<>> THEN run
  ELSE CHOOSE done \in
         {RouteOutputs(next, Tail(outputs), converterId) :
            next \in {RouteOutput(run, Head(outputs), converterId)}} : TRUE

RECURSIVE OrderedLoop(_, _, _)
\* run.x is the run, run.allOutputs the outputs of the group so far
OrderedLoop(run, orderedSubgroups, order) ==
  IF order = <<>> \/ run.x.err # NoError THEN run
  ELSE CHOOSE done \in
         {OrderedLoop(routed, orderedSubgroups, Tail(order)) :
            routed \in
              {RouteOutputs([x |-> x1, allOutputs |-> run.allOutputs], x1.outputs,
                            orderedSubgroups.converterOfGroup[Head(order)]) :
                 x1 \in {executeSubgroup(run.x,
                           orderedSubgroups.entryPointsToGroup[Head(order)])}}} : TRUE

\* executeOrderedSubgroup with groupExecutionOrder = order
executeOrderedSubgroup(x, orderedSubgroups, order) ==
  OrderedLoop([x |-> x, allOutputs |-> <<>>], orderedSubgroups, order)

RECURSIVE CyclicLoop(_, _, _)
\* the loop of executeCyclicSubgroup from subgroup number g
CyclicLoop(run, cyclicSubgroup, g) ==
  IF g > Len(cyclicSubgroup.groups) \/ run.x.err # NoError THEN run
  ELSE CHOOSE done \in
         {CyclicLoop([x |-> x1, allOutputs |-> mergeOutputs(run.allOutputs, x1.outputs)],
                     cyclicSubgroup, g + 1) :
            x1 \in {executeSubgroup(run.x, cyclicSubgroup.entryPointsToGroup[g])}} : TRUE

\* executeCyclicSubgroup that runs the subgroups the way an Ordered group
\* runs them, in the order of their numbers
executeCyclicSubgroup_routed(x, cyclicSubgroup) ==
  executeOrderedSubgroup(x, cyclicSubgroup,
                         [g \in 1..Len(cyclicSubgroup.groups) |-> g])

executeCyclicSubgroup(x, cyclicSubgroup) ==
  CyclicLoop([x |-> x, allOutputs |-> <<>>], cyclicSubgroup, 1)

RECURSIVE GroupLoop(_, _, _, _)
\* the loop of executeCompiledGraph from group number k; pick[k] is the
\* groupExecutionOrder of group k
GroupLoop(run, compiledGraph, pick, k) ==
  IF k > Len(compiledGraph) \/ run.x.err # NoError THEN run
  ELSE CHOOSE done \in
         {GroupLoop([x |-> outputs.x,
                     allOutputs |-> mergeOutputs(run.allOutputs, outputs.allOutputs)],
                    compiledGraph, pick, k + 1) :
            outputs \in
              {IF compiledGraph[k].type = "cyclic"
               THEN executeCyclicSubgroup(run.x, compiledGraph[k])
               ELSE executeOrderedSubgroup(run.x, compiledGraph[k], pick[k])}} : TRUE

executeCompiledGraph(x, compiledGraph, pick) ==
  GroupLoop([x |-> x, allOutputs |-> <<>>], compiledGraph, pick, 1)

\* one step of the loop of writeToGraph
WriteOutput(x, output) ==
  LET e == IF output.id \in DOMAIN x.els THEN x.els[output.id] ELSE UndefinedElement
  IN CASE e.type = "pool" ->
            IF Len(output.packets) # 1
            THEN [x EXCEPT !.err = "must have exactly one packet to Pool"]
            ELSE [x EXCEPT !.els[output.id] = Pool_addToPool(@, output.packets[1].value),
                           !.log = Append(@, [op |-> "addToPool", id |-> output.id,
                                              before |-> e.state,
                                              amount |-> output.packets[1].value])]
       [] e.type = "converter" -> AddPacketsToBuffer(x, output.id, output.packets)
       [] OTHER -> x

RECURSIVE writeToGraph(_, _)
writeToGraph(x, allOutputs) ==
  IF allOutputs = <<>> \/ x.err # NoError THEN x
  ELSE CHOOSE done \in
         {writeToGraph(next, Tail(allOutputs)) :
            next \in {WriteOutput(x, Head(allOutputs))}} : TRUE

\* the groupExecutionOrder of every group of a compiled graph
OrderPicks(compiledGraph) ==
  {pick \in [1..Len(compiledGraph) ->
               UNION {compiledGraph[k].orders : k \in 1..Len(compiledGraph)}] :
     \A k \in 1..Len(compiledGraph) : pick[k] \in compiledGraph[k].orders}

\* the graph after activatePoolsAndGates of a tick
Activated(els, selected) == activatePoolsAndGates(els, FALSE, selected)

\* the compiled graph of a tick in which the Gates select `selected`
Compiled(els, selected) ==
  CHOOSE compiledGraph \in
    {compileGraph(active.els, active.activeElements, FALSE) :
       active \in {Activated(els, selected)}} : TRUE

\* the run of the tick up to the end of executeCompiledGraph
Executed(els, selected, pick) ==
  CHOOSE run \in
    {executeCompiledGraph(TickRun(active.els), compiledGraph, pick) :
       active \in {Activated(els, selected)},
       compiledGraph \in {Compiled(els, selected)}} : TRUE

\* nextTick(graph): selected is the outcome of _randomSelect of every Gate,
\* pick the outcome of topologicalSort of every group
nextTick(els, selected, pick) ==
  CHOOSE x \in
    {writeToGraph(executed.x, executed.allOutputs) :
       executed \in {Executed(els, selected, pick)}} : TRUE

\* the outcomes of topologicalSort in a tick with the given selections
TickPicks(els, selected) == OrderPicks(Compiled(els, selected))

(***************************************************************************)
(* Graph.checkGraph: the graph after the call and the kind of the result.  *)
(***************************************************************************)
SwapsOf(els) == {id \in DOMAIN els : els[id].type = "swap"}

\* the compiled graph of compileGraph(this, true)
CompiledForCheck(els) ==
  CHOOSE compiledGraph \in
    {compileGraph(active.els, active.activeElements, TRUE) :
       active \in {activatePoolsAndGates(els, TRUE, <<>>)}} : TRUE

\* the sets of Converters of the cyclic groups
CyclicConverters(compiledGraph) ==
  LET cyclic == SelectSeq(compiledGraph, LAMBDA g : g.type = "cyclic")
  IN [i \in 1..Len(cyclic) |->
        {cyclic[i].converterOfGroup[g] : g \in 1..Len(cyclic[i].groups)}
        \ {Undefined}]

\* checkGraph that looks for the cycles of Converters before it validates
\* the Swaps
checkGraph_cyclesFirst(els) ==
  CHOOSE result \in
    {[els |-> active.els,
      type |-> IF Len(CyclicConverters(compiledGraph)) > 0 THEN "warning"
               ELSE IF \E id \in SwapsOf(els) : ~Swap_validateSwapConfig(els[id])
               THEN "error" ELSE "no error",
      cyclicConverters |-> CyclicConverters(compiledGraph)] :
       active \in {activatePoolsAndGates(els, TRUE, <<>>)},
       compiledGraph \in {CompiledForCheck(els)}} : TRUE

checkGraph(els) ==
  IF \E id \in SwapsOf(els) : ~Swap_validateSwapConfig(els[id])
  THEN [els |-> els, type |-> "error", cyclicConverters |-> <<>>]
  ELSE CHOOSE result \in
         {[els |-> active.els,
           type |-> IF Len(CyclicConverters(compiledGraph)) > 0
                    THEN "warning" ELSE "no error",
           cyclicConverters |-> CyclicConverters(compiledGraph)] :
            active \in {activatePoolsAndGates(els, TRUE, <<>>)},
            compiledGraph \in {CompiledForCheck(els)}} : TRUE

(***************************************************************************)
(* The graphs the ticks start from, each built by the calls of a client    *)
(* on a new Graph.                                                         *)
(***************************************************************************)
MaxPoolState == 10
MaxRate == 4

\* the calls of a client: addNode, addEdge, and the setters of the objects
NodeOp(type, id, label) == [kind |-> "addNode", type |-> type, id |-> id, label |-> label]

EdgeOp(id, from, to, index) ==
  [kind |-> "addEdge", id |-> id, from |-> from, to |-> to, index |-> index]

RateOp(id, rate) == [kind |-> "setRate", id |-> id, rate |-> rate]

DeleteOp(id) == [kind |-> "deleteElement", id |-> id]

ConditionOp(id, condition) == [kind |-> "setCondition", id |-> id, condition |-> condition]

StateOp(id, state) == [kind |-> "setState", id |-> id, state |-> state]

RequiredOp(id, token, value) ==
  [kind |-> "_setRequiredInputPerUnit", id |-> id, token |-> token, value |-> value]

BufferOp(id, token, amount) ==
  [kind |-> "_addToBuffer", id |-> id, token |-> token, amount |-> amount]

WeightOp(id, edgeId, weight) ==
  [kind |-> "setGateOutputWeight", id |-> id, edgeId |-> edgeId, weight |-> weight]

TokensOp(id, tokenA, tokenB) ==
  [kind |-> "setTokens", id |-> id, tokenA |-> tokenA, tokenB |-> tokenB]

AmountsOp(id, amountA, amountB) ==
  [kind |-> "setTokenAmounts", id |-> id, amountA |-> amountA, amountB |-> amountB]

\* one call
BuildStep(r, op) ==
  CASE op.kind = "addNode" -> addNode(r, op.type, op.id, op.label)
    [] op.kind = "addEdge" -> addEdge(r, op.id, op.from, op.to, op.index, Omitted)
    [] op.kind = "setRate" -> [r EXCEPT !.heap[op.id] = Edge_setRate(@, op.rate)]
    [] op.kind = "setState" -> [r EXCEPT !.heap[op.id] = Pool_setState(@, op.state)]
    [] op.kind = "deleteElement" -> deleteElement(r, op.id)
    [] op.kind = "setCondition" ->
         [r EXCEPT !.heap[op.id] = Edge_setCondition(@, op.condition)]
    [] op.kind = "_setRequiredInputPerUnit" ->
         [r EXCEPT !.heap[op.id] = Converter_setRequiredInputPerUnit(@, op.token, op.value)]
    [] op.kind = "_addToBuffer" ->
         [r EXCEPT !.heap[op.id] = Converter_addToBuffer(@, op.token, op.amount)]
    [] op.kind = "setGateOutputWeight" ->
         setGateOutputWeight(r, op.id, op.edgeId, op.weight)
    [] op.kind = "setTokens" ->
         [r EXCEPT !.heap[op.id] = Swap_setTokenB(Swap_setTokenA(@, op.tokenA), op.tokenB)]
    [] op.kind = "setTokenAmounts" ->
         [r EXCEPT !.heap[op.id] =
            Swap_setTokenBAmount(Swap_setTokenAAmount(@, op.amountA), op.amountB)]

RECURSIVE Build(_, _)
\* the run of a sequence of calls
Build(r, ops) ==
  IF ops = <<>> THEN r
  ELSE CHOOSE done \in {Build(next, Tail(ops)) : next \in {BuildStep(r, Head(ops))}} : TRUE

NewGraph ==
  Run(<<>>, <<>>, [pool |-> 0, gate |-> 0, converter |-> 0, edge |-> 0, swap |-> 0])

LabelP0 == <<"p", "0">>
LabelP1 == <<"p", "1">>
LabelP2 == <<"p", "2">>

\* the tokens of the first and the second Converter with an automatic label
TokenC0 == defaultToken(ElementTypeChars["converter"] \o <<"$", "0">>)
TokenC1 == defaultToken(ElementTypeChars["converter"] \o <<"$", "1">>)
TokenC2 == defaultToken(ElementTypeChars["converter"] \o <<"$", "2">>)

\* tests/executor.test.ts "test two pools unlimited rate", any state and rate
TwoPools(state, rate) ==
  <<NodeOp("pool", "p0", LabelP0), NodeOp("pool", "p1", LabelP1),
    StateOp("p0", state),
    EdgeOp("p0-p1", "p0", "p1", Omitted), RateOp("p0-p1", rate)>>

\* tests/executor.test.ts "test Pools loop"
PoolsLoop ==
  <<NodeOp("pool", "p0", LabelP0), NodeOp("pool", "p1", LabelP1),
    NodeOp("pool", "p2", LabelP2),
    StateOp("p0", 10), StateOp("p1", 10), StateOp("p2", 10),
    EdgeOp("p0-p1", "p0", "p1", Omitted), RateOp("p0-p1", 1),
    EdgeOp("p1-p2", "p1", "p2", Omitted), RateOp("p1-p2", 2),
    EdgeOp("p2-p0", "p2", "p0", Omitted), RateOp("p2-p0", 3)>>

\* tests/testGraph.ts smallGraph with the states and the weights of the
\* executor tests "pools with gates and converter"
SmallGraph(weight0, weight1) ==
  <<NodeOp("pool", "p0", LabelP0), NodeOp("pool", "p1", LabelP1),
    NodeOp("converter", "c0", Omitted), NodeOp("gate", "g0", Omitted),
    RequiredOp("c0", defaultToken(LabelP0), 2),
    RequiredOp("c0", defaultToken(LabelP1), 1),
    EdgeOp("p0-c0", "p0", "c0", Omitted), RateOp("p0-c0", 4),
    EdgeOp("p1-c0", "p1", "c0", Omitted), RateOp("p1-c0", 4),
    EdgeOp("c0-g0", "c0", "g0", Omitted), RateOp("c0-g0", 1),
    EdgeOp("g0-p0", "g0", "p0", Omitted), RateOp("g0-p0", -1),
    EdgeOp("g0-p1", "g0", "p1", Omitted), RateOp("g0-p1", -1),
    WeightOp("g0", "g0-p0", weight0), WeightOp("g0", "g0-p1", weight1),
    StateOp("p0", 8), StateOp("p1", 12)>>

\* two Converters that feed each other, and a Pool that feeds the first
ConverterCycle(state, rate) ==
  <<NodeOp("pool", "p0", LabelP0),
    NodeOp("converter", "c0", Omitted), NodeOp("converter", "c1", Omitted),
    RequiredOp("c0", defaultToken(LabelP0), 1), RequiredOp("c0", TokenC1, 1),
    RequiredOp("c1", TokenC0, 1),
    BufferOp("c0", TokenC1, state), StateOp("p0", state),
    EdgeOp("p0-c0", "p0", "c0", Omitted), RateOp("p0-c0", rate),
    EdgeOp("c0-c1", "c0", "c1", Omitted), EdgeOp("c1-c0", "c1", "c0", Omitted)>>

\* the two Converters that feed each other next to a Swap without edges,
\* whose tokens are set when configured
CycleWithSwap(configured) ==
  <<NodeOp("pool", "p0", LabelP0),
    NodeOp("converter", "c0", Omitted), NodeOp("converter", "c1", Omitted),
    NodeOp("swap", "s0", Omitted),
    RequiredOp("c0", defaultToken(LabelP0), 1), RequiredOp("c0", TokenC1, 1),
    RequiredOp("c1", TokenC0, 1),
    BufferOp("c0", TokenC1, 1), StateOp("p0", 1)>>
  \o (IF configured
      THEN <<TokensOp("s0", defaultToken(LabelP0), defaultToken(LabelP1))>>
      ELSE <<>>)
  \o <<EdgeOp("p0-c0", "p0", "c0", Omitted),
       EdgeOp("c0-c1", "c0", "c1", Omitted), EdgeOp("c1-c0", "c1", "c0", Omitted)>>

\* tests/testGraph.ts addCyclicConverter: a Converter feeds a Gate, the
\* Gate a second Converter and a Pool, both of which feed the first
GateCycle(weight) ==
  <<NodeOp("pool", "p0", LabelP0),
    NodeOp("converter", "c0", Omitted), NodeOp("converter", "c1", Omitted),
    NodeOp("gate", "g0", Omitted),
    RequiredOp("c0", defaultToken(LabelP0), 1), RequiredOp("c1", TokenC0, 1),
    BufferOp("c0", defaultToken(LabelP0), 1), StateOp("p0", 1),
    EdgeOp("p0-c0", "p0", "c0", Omitted), EdgeOp("c0-g0", "c0", "g0", Omitted),
    EdgeOp("g0-p0", "g0", "p0", Omitted), EdgeOp("c1-c0", "c1", "c0", Omitted),
    EdgeOp("g0-c1", "g0", "c1", Omitted),
    WeightOp("g0", "g0-c1", weight)>>

\* a Gate that feeds two Converters, each with a Pool behind it
FanOut(weight0, weight1) ==
  <<NodeOp("pool", "p0", LabelP0), NodeOp("pool", "p1", LabelP1),
    NodeOp("pool", "p2", LabelP2),
    NodeOp("converter", "c0", Omitted), NodeOp("converter", "c1", Omitted),
    NodeOp("gate", "g0", Omitted),
    RequiredOp("c0", defaultToken(LabelP0), 1),
    RequiredOp("c1", defaultToken(LabelP0), 1),
    StateOp("p0", 2),
    EdgeOp("p0-g0", "p0", "g0", Omitted), EdgeOp("g0-c0", "g0", "c0", Omitted),
    EdgeOp("g0-c1", "g0", "c1", Omitted), EdgeOp("c0-p1", "c0", "p1", Omitted),
    EdgeOp("c1-p2", "c1", "p2", Omitted),
    WeightOp("g0", "g0-c0", weight0), WeightOp("g0", "g0-c1", weight1)>>

\* a Gate that feeds two Converters, the first of which feeds the second
\* through a third
FanOutChain(weight0, weight1) ==
  <<NodeOp("pool", "p0", LabelP0), NodeOp("pool", "p2", LabelP2),
    NodeOp("converter", "c0", Omitted), NodeOp("converter", "c1", Omitted),
    NodeOp("converter", "c2", Omitted), NodeOp("gate", "g0", Omitted),
    RequiredOp("c0", defaultToken(LabelP0), 1),
    RequiredOp("c1", defaultToken(LabelP0), 1),
    RequiredOp("c2", TokenC0, 1),
    StateOp("p0", 2),
    EdgeOp("p0-g0", "p0", "g0", Omitted), EdgeOp("g0-c0", "g0", "c0", Omitted),
    EdgeOp("g0-c1", "g0", "c1", Omitted), EdgeOp("c0-c2", "c0", "c2", Omitted),
    EdgeOp("c2-c1", "c2", "c1", Omitted), EdgeOp("c1-p2", "c1", "p2", Omitted),
    WeightOp("g0", "g0-c0", weight0), WeightOp("g0", "g0-c1", weight1)>>

\* tests/executor.test.ts "pools with swap" with amounts of 2; the tokens
\* of the Swap are set when configured
SwapGraph(configured, state) ==
  <<NodeOp("pool", "p0", LabelP0), NodeOp("pool", "p1", LabelP1),
    NodeOp("swap", "s0", Omitted),
    StateOp("p0", state), AmountsOp("s0", 2, 2)>>
  \o (IF configured
      THEN <<TokensOp("s0", defaultToken(LabelP0), defaultToken(LabelP1))>>
      ELSE <<>>)
  \o <<EdgeOp("p0-s0", "p0", "s0", <<0>>), RateOp("p0-s0", 2),
       EdgeOp("s0-p1", "s0", "p1", <<0>>),
       EdgeOp("p1-s0", "p1", "s0", <<1>>), EdgeOp("s0-p0", "s0", "p0", <<1>>)>>

\* the second Converter feeds the first through pipe 0 of a Swap
SwapToConverter(state) ==
  <<NodeOp("converter", "c0", Omitted), NodeOp("converter", "c1", Omitted),
    NodeOp("swap", "s0", Omitted),
    RequiredOp("c1", <<"x">>, 1), BufferOp("c1", <<"x">>, state),
    AmountsOp("s0", 2, 2), TokensOp("s0", TokenC1, TokenC0),
    EdgeOp("c1-s0", "c1", "s0", <<0>>), EdgeOp("s0-c0", "s0", "c0", <<0>>)>>

\* two Pools that each got an edge into pipe 0 of a Swap; the Swap was
\* deleted and a Pool was added under its id and fed from the first Pool
TwoIntoPool(state) ==
  <<NodeOp("pool", "p0", LabelP0), NodeOp("pool", "p1", LabelP1),
    NodeOp("swap", "s0", Omitted), StateOp("p0", state), StateOp("p1", state),
    EdgeOp("p0-s0", "p0", "s0", <<0>>), EdgeOp("p1-s0", "p1", "s0", <<0>>),
    DeleteOp("s0"), NodeOp("pool", "s0", Omitted),
    EdgeOp("p0-s0", "p0", "s0", Omitted)>>

\* a Converter feeds a Gate, the Gate a second Converter, which feeds the
\* first, and a third Converter, which feeds a Pool
GateCycleFan(weight1, weight2) ==
  <<NodeOp("pool", "p0", LabelP0), NodeOp("pool", "p1", LabelP1),
    NodeOp("converter", "c0", Omitted), NodeOp("converter", "c1", Omitted),
    NodeOp("converter", "c2", Omitted), NodeOp("gate", "g0", Omitted),
    RequiredOp("c0", defaultToken(LabelP0), 1), RequiredOp("c1", TokenC0, 1),
    RequiredOp("c2", TokenC0, 1),
    BufferOp("c0", defaultToken(LabelP0), 1), StateOp("p0", 1),
    EdgeOp("p0-c0", "p0", "c0", Omitted), EdgeOp("c0-g0", "c0", "g0", Omitted),
    EdgeOp("c1-c0", "c1", "c0", Omitted), EdgeOp("g0-c1", "g0", "c1", Omitted),
    EdgeOp("g0-c2", "g0", "c2", Omitted), EdgeOp("c2-p1", "c2", "p1", Omitted),
    WeightOp("g0", "g0-c1", weight1), WeightOp("g0", "g0-c2", weight2)>>

\* a Pool that got an edge into pipe 0 of a Swap after another Pool; the
\* Swap was deleted, a Gate was added under its id and a second Gate, and
\* the two Gates feed each other
PoolIntoGates(state) ==
  <<NodeOp("pool", "p0", LabelP0), NodeOp("pool", "p1", LabelP1),
    NodeOp("swap", "s0", Omitted), StateOp("p1", state),
    EdgeOp("p0-s0", "p0", "s0", <<0>>), EdgeOp("p1-s0", "p1", "s0", <<0>>),
    DeleteOp("s0"), NodeOp("gate", "s0", Omitted), NodeOp("gate", "g0", Omitted),
    EdgeOp("s0-g0", "s0", "g0", Omitted), EdgeOp("g0-s0", "g0", "s0", Omitted)>>

\* a graph with the condition of one edge set to `false`
Closed(ops, edgeId) == ops \o <<ConditionOp(edgeId, "false")>>

\* the graphs the ticks start from, as the calls that build them
TickGraphs ==
  {TwoPools(state, rate) : state \in 0..MaxPoolState, rate \in (-1)..MaxRate}
  \cup {PoolsLoop}
  \cup {SmallGraph(w[1], w[2]) : w \in (0..1) \X (0..1)}
  \cup {ConverterCycle(state, rate) : state \in 0..2, rate \in (-1)..1}
  \cup {FanOut(w[1], w[2]) : w \in (0..1) \X (0..1)}
  \cup {FanOutChain(w[1], w[2]) : w \in (0..1) \X (0..1)}
  \cup {CycleWithSwap(configured) : configured \in BOOLEAN}
  \cup {GateCycle(weight) : weight \in 0..1}
  \cup {GateCycleFan(w[1], w[2]) : w \in (0..1) \X (0..1)}
  \cup {TwoIntoPool(state) : state \in 0..2}
  \cup {Closed(TwoPools(2, rate), "p0-p1") : rate \in {-1, 1}}
  \cup {Closed(ConverterCycle(1, 1), edgeId) : edgeId \in {"p0-c0", "c0-c1", "c1-c0"}}
  \cup {SwapToConverter(state) : state \in 0..1}
  \cup {PoolIntoGates(state) : state \in 0..1}
  \cup {SwapGraph(configured, state) : configured \in BOOLEAN, state \in {0, 2}}

\* the elements of the graph that the calls `ops` build on a new Graph
GraphOf(ops) == ElementsOf(Build(NewGraph, ops))

TickInit ==
  \E ops \in TickGraphs :
    \E r \in {Build(NewGraph, ops)} :
      /\ elements = ElementsOf(r)
      /\ labels = r.labels
      /\ autoLabelCounter = r.autoLabelCounter
      /\ graphClone = NoClone

\* Graph.nextTick() with some outcome of the random selections; the ticks
\* of the model are those whose quantities stay whole
GraphNextTick ==
  \E selected \in GateSelections(elements) :
    \E pick \in TickPicks(elements, selected) :
      \E x \in {nextTick(elements, selected, pick)} :
        /\ x.whole
        /\ elements' = x.els
        /\ UNCHANGED <<labels, autoLabelCounter, graphClone>>

\* Graph.checkGraph()
CheckGraph ==
  /\ elements' = checkGraph(elements).els
  /\ UNCHANGED <<labels, autoLabelCounter, graphClone>>

TickNext == GraphNextTick \/ CheckGraph

TickSpec == TickInit /\ [][TickNext]_vars

(***************************************************************************)
(* clone().  Each class copies itself field by field; `shared` is the set  *)
(* of ids whose object the clone and the original both refer to, and a     *)
(* call on one graph that changes a shared object changes it in both.      *)
(***************************************************************************)
\* new Pool(arg)
Pool_clone(arg) ==
  [type |-> "pool", label |-> arg.label, token |-> arg.token,
   state |-> arg.state, capacity |-> arg.capacity,
   fromEdge |-> arg.fromEdge, toEdge |-> arg.toEdge]

\* new Gate(arg)
Gate_clone(arg) ==
  [type |-> "gate", label |-> arg.label, fromEdge |-> arg.fromEdge,
   selectedToEdge |-> arg.selectedToEdge, toEdges |-> arg.toEdges]

\* new Converter(arg): toEdge is not assigned
Converter_clone(arg) ==
  [type |-> "converter", label |-> arg.label, token |-> arg.token,
   fromEdges |-> arg.fromEdges, toEdge |-> Undefined, condition |-> arg.condition,
   requiredInputPerUnit |-> arg.requiredInputPerUnit, buffer |-> arg.buffer]

\* new Swap(arg)
Swap_clone(arg) ==
  [type |-> "swap", label |-> arg.label,
   pipes |-> [i \in DOMAIN arg.pipes |->
                [in |-> arg.pipes[i].in, out |-> arg.pipes[i].out, held |-> FALSE]],
   tokenA |-> [token |-> arg.tokenA.token, amount |-> arg.tokenA.amount],
   tokenB |-> [token |-> arg.tokenB.token, amount |-> arg.tokenB.amount],
   constraint |-> arg.constraint]

\* new Edge(this.label, this.fromNode, this.toNode, this.rate)
Edge_clone(edge) ==
  [NewEdge(edge.label, edge.fromNode, edge.toNode)
     EXCEPT !.rate = IF edge.rate >= 0 THEN edge.rate ELSE -1]

Element_clone(e) ==
  CASE e.type = "pool" -> Pool_clone(e)
    [] e.type = "gate" -> Gate_clone(e)
    [] e.type = "converter" -> Converter_clone(e)
    [] e.type = "swap" -> Swap_clone(e)
    [] e.type = "edge" -> Edge_clone(e)

\* a constructor that stores the elements of `graph` themselves
Graph_clone_shallow(els, lbs, ctr) ==
  [made |-> TRUE, elements |-> els, labels |-> lbs, autoLabelCounter |-> ctr,
   shared |-> DOMAIN els, edits |-> 0]

\* new Graph(graph): every element is e.clone(), an object made by `new`
\* whose objects and arrays are copies; labels and counters are spread
Graph_clone(els, lbs, ctr) ==
  [made |-> TRUE, elements |-> [id \in DOMAIN els |-> Element_clone(els[id])],
   labels |-> lbs, autoLabelCounter |-> ctr, shared |-> {}, edits |-> 0]

\* the elements of a graph after a call on the other graph left `after`
Through(els, shared, after) ==
  [id \in DOMAIN els |->
     IF id \in shared /\ id \in DOMAIN after THEN after[id] ELSE els[id]]

Original ==
  [made |-> TRUE, elements |-> elements, labels |-> labels,
   autoLabelCounter |-> autoLabelCounter, shared |-> {}, edits |-> 0]

\* the state after a call on the clone or on the original left `after`
LeaveOn(onClone, after) ==
  IF onClone
  THEN /\ graphClone' = [graphClone EXCEPT !.elements = after.elements,
                                            !.labels = after.labels,
                                            !.autoLabelCounter = after.autoLabelCounter,
                                            !.edits = @ + after.edits]
       /\ elements' = Through(elements, graphClone.shared, after.elements)
       /\ UNCHANGED <<labels, autoLabelCounter>>
  ELSE /\ elements' = after.elements
       /\ labels' = after.labels
       /\ autoLabelCounter' = after.autoLabelCounter
       /\ graphClone' = [graphClone EXCEPT
                           !.elements = Through(@, graphClone.shared, after.elements),
                           !.edits = @ + after.edits]

TargetOf(onClone) == IF onClone THEN graphClone ELSE Original

\* graph.clone()
Clone ==
  /\ ~graphClone.made
  /\ graphClone' = Graph_clone(elements, labels, autoLabelCounter)
  /\ UNCHANGED <<elements, labels, autoLabelCounter>>

\* nextTick() of the clone or of the original
TickEither ==
  /\ graphClone.made
  /\ \E onClone \in BOOLEAN :
       \E target \in {TargetOf(onClone)} :
         \E selected \in GateSelections(target.elements) :
           \E pick \in TickPicks(target.elements, selected) :
             \E x \in {nextTick(target.elements, selected, pick)} :
               /\ x.whole
               /\ LeaveOn(onClone, [target EXCEPT !.elements = x.els, !.edits = 0])

\* the number of edit calls after clone()
MaxEdits == 1

\* the edit calls of the model on a graph
Edits(els) ==
  {StateOp(id, 0) : id \in {k \in DOMAIN els : els[k].type = "pool"}}
  \cup {DeleteOp(id) : id \in {k \in DOMAIN els : els[k].type = "edge"}}
  \cup {NodeOp("pool", "p9", Omitted) : id \in {"p9"} \ DOMAIN els}

\* an edit call on the clone or on the original
EditEither ==
  /\ graphClone.made
  /\ graphClone.edits < MaxEdits
  /\ \E onClone \in BOOLEAN :
       \E target \in {TargetOf(onClone)} :
         \E op \in Edits(target.elements) :
           \E r \in {BuildStep(Run(target.elements, target.labels, target.autoLabelCounter), op)} :
             LeaveOn(onClone, [target EXCEPT !.elements = ElementsOf(r),
                                             !.labels = r.labels,
                                             !.autoLabelCounter = r.autoLabelCounter,
                                             !.edits = 1])

CloneNext == Clone \/ TickEither \/ EditEither

\* TwoPools whose edge has the condition `false`
ClosedEdge == TwoPools(2, 1) \o <<ConditionOp("p0-p1", "false")>>

\* the graphs that are cloned
CloneGraphs ==
  {TwoPools(2, rate) : rate \in {-1, 1}}
  \cup {ClosedEdge, ConverterCycle(1, 1), GateCycle(1), SwapGraph(TRUE, 2)}

CloneInit ==
  \E ops \in CloneGraphs :
    \E r \in {Build(NewGraph, ops)} :
      /\ elements = ElementsOf(r)
      /\ labels = r.labels
      /\ autoLabelCounter = r.autoLabelCounter
      /\ graphClone = NoClone

CloneSpec == CloneInit /\ [][CloneNext]_vars

(***************************************************************************)
(* Claims about the tick.  A claim about one tick is stated over the run   *)
(* of nextTick from every reachable graph, for every outcome of the random *)
(* selections.                                                             *)
(***************************************************************************)
\* the entries of the log of a run for one operation on one element
LogOf(x, op, id) == SelectSeq(x.log, LAMBDA entry : entry.op = op /\ entry.id = id)

\* the Pools with an output edge that pulls, its condition being true
PullingPools ==
  {id \in {p \in Pools : elements[p].toEdge \in DOMAIN elements} :
     Edge_evaluateCondition(elements[elements[id].toEdge])}

\* min(rate, s), or s when the edge is unlimited
Pulled(edge, s) == IF edge.rate < 0 THEN s ELSE Min(edge.rate, s)

\* C11: within one nextTick every takeFromPool happens before any
\* addToPool, and every Pool with an output edge is pulled once, for
\* min(rate, s), or s over an unlimited edge, where s is its state right
\* after the activation, whatever is delivered to it in the same tick.
C11_PullsBeforeAdds ==
  \A selected \in GateSelections(elements) :
    \A pick \in TickPicks(elements, selected) :
      \A x \in {nextTick(elements, selected, pick)} :
        x.whole =>
          /\ \A i, j \in 1..Len(x.log) :
               x.log[i].op = "addToPool" /\ x.log[j].op = "takeFromPool" => j < i
          /\ \A id \in PullingPools :
               \A s \in {Activated(elements, selected).els[id].state} :
                 /\ Len(LogOf(x, "takeFromPool", id)) = 1
                 /\ LogOf(x, "takeFromPool", id)[1].before = s
                 /\ LogOf(x, "takeFromPool", id)[1].amount
                      = Pulled(elements[elements[id].toEdge], s)

\* a tick pulls from a Pool that has less than the rate of its edge and
\* delivers to the same Pool
C11_PulledAndFed ==
  \E selected \in GateSelections(elements) :
    \E pick \in TickPicks(elements, selected) :
      \E x \in {nextTick(elements, selected, pick)} :
        \E id \in PullingPools :
          /\ x.whole
          /\ elements[id].state > 0
          /\ elements[id].state < elements[elements[id].toEdge].rate
          /\ Len(LogOf(x, "addToPool", id)) = 1
          /\ LogOf(x, "addToPool", id)[1].amount > 0

\* the graphs one nextTick can leave behind from els, over the outcomes of
\* the random selections
AfterTick(els) ==
  UNION {{nextTick(els, selected, pick).els : pick \in TickPicks(els, selected)} :
           selected \in GateSelections(els)}

\* the graphs n calls of nextTick can leave behind from the graphs given
RECURSIVE TicksFrom(_, _)
TicksFrom(graphs, n) ==
  IF n = 0 THEN graphs
  ELSE CHOOSE done \in {TicksFrom(next, n - 1) :
                          next \in {UNION {AfterTick(els) : els \in graphs}}} : TRUE

\* the states of the Pools p0 and p1
PoolStates(els) == <<els["p0"].state, els["p1"].state>>

\* the graph is two unbounded Pools joined by one edge from p0 to p1 with
\* the condition that an edge is made with
IsTwoPools ==
  /\ DOMAIN elements = {"p0", "p1", "p0-p1"}
  /\ Edge_evaluateCondition(elements["p0-p1"])
  /\ elements["p0"].capacity < 0
  /\ elements["p1"].capacity < 0
  /\ elements["p0-p1"].fromNode = "p0"
  /\ elements["p0-p1"].toNode = "p1"

\* C12: with two unbounded Pools and one edge from the first to the
\* second, one tick changes the states (s0, s1) to (s0 - m, s1 + m), where
\* m = min(rate, s0) for a rate >= 0 and m = s0 for a negative rate; from
\* (10, 0) with rate 1 the states are (0, 10) after 10 ticks and after
\* every later tick, with rate -1 they are (0, 10) after one tick.
C12_TwoPoolsTick ==
  /\ IsTwoPools =>
       \A s \in {PoolStates(elements)} : \A rate \in {elements["p0-p1"].rate} :
         \A m \in {IF rate >= 0 THEN Min(rate, s[1]) ELSE s[1]} :
           \A after \in AfterTick(elements) :
             PoolStates(after) = <<s[1] - m, s[2] + m>>
  /\ elements = GraphOf(TwoPools(10, 1)) =>
       \A n \in 10..12 : \A after \in TicksFrom({elements}, n) :
         PoolStates(after) = <<0, 10>>
  /\ elements = GraphOf(TwoPools(10, -1)) =>
       \A n \in 1..3 : \A after \in TicksFrom({elements}, n) :
         PoolStates(after) = <<0, 10>>

\* a tick of two Pools moves less than the rate of the edge, because the
\* first Pool holds less, into a second Pool that is not empty
C12_MovesWhatIsLeft ==
  /\ IsTwoPools
  /\ elements["p0"].state > 0
  /\ elements["p0"].state < elements["p0-p1"].rate
  /\ elements["p1"].state > 0

\* the states of the Pools p0, p1 and p2
LoopStates(els) == <<els["p0"].state, els["p1"].state, els["p2"].state>>

\* the graph is the loop of three Pools
IsPoolsLoop == DOMAIN elements = DOMAIN GraphOf(PoolsLoop)

\* C13: three Pools (10, 10, 10) in a cycle with rates 1, 2, 3: each of
\* the first 8 ticks changes the states by (+2, -1, -1), the states are
\* (27, 1, 2) after tick 9, (28, 1, 1) after tick 10 and after every later
\* tick.
C13_PoolsLoopRun ==
  elements = GraphOf(PoolsLoop) =>
    /\ \A n \in 1..8 : \A after \in TicksFrom({elements}, n) :
         LoopStates(after) = <<10 + 2 * n, 10 - n, 10 - n>>
    /\ \A after \in TicksFrom({elements}, 9) : LoopStates(after) = <<27, 1, 2>>
    /\ \A n \in 10..13 : \A after \in TicksFrom({elements}, n) :
         LoopStates(after) = <<28, 1, 1>>

\* the loop of three Pools has run down to the tick in which the last Pool
\* gives all it has and gets as much back
C13_LoopAfterNine ==
  /\ IsPoolsLoop
  /\ LoopStates(elements) = <<27, 1, 2>>

\* the place of subgroup g in a groupExecutionOrder
PlaceIn(order, g) == CHOOSE i \in DOMAIN order : order[i] = g

\* in every Ordered parallel group of a compiled graph and every
\* groupExecutionOrder topologicalSort can give it: for each entry edge of a
\* subgroup that leaves a Converter, a subgroup holds that Converter and
\* every subgroup that holds it comes before the subgroup of the edge
ConvertersComeFirst(els, compiledGraph) ==
  \A k \in DOMAIN compiledGraph : \A group \in {compiledGraph[k]} :
    group.type = "ordered" =>
      \A order \in group.orders : \A g \in DOMAIN group.groups :
        \A edgeId \in SeqToSet(group.entryPointsToGroup[g]) :
          els[els[edgeId].fromNode].type = "converter" =>
            /\ \E t \in DOMAIN group.groups :
                 els[edgeId].fromNode \in SeqToSet(group.groups[t])
            /\ \A t \in DOMAIN group.groups :
                 els[edgeId].fromNode \in SeqToSet(group.groups[t])
                   => PlaceIn(order, t) < PlaceIn(order, g)

\* C14: in every Ordered parallel group, for each entry edge whose source
\* is a Converter T, the subgroup containing T appears in
\* groupExecutionOrder before the subgroup containing that edge.
C14_ConverterBeforeItsEdge ==
  /\ \A selected \in GateSelections(elements) :
       ConvertersComeFirst(elements, Compiled(elements, selected))
  /\ ConvertersComeFirst(elements, CompiledForCheck(elements))

\* the states of the Pools p0 and p1 and the buffer of the Converter c0 as
\* the set of its entries
SmallStates(els) ==
  <<els["p0"].state, els["p1"].state,
    {<<els["c0"].buffer[i].token, els["c0"].buffer[i].amount>> :
       i \in DOMAIN els["c0"].buffer}>>

\* the states after n ticks of the small graph with the tokens of p0 and
\* p1 in the buffer
SmallAfter(p0, p1, of0, of1) ==
  <<p0, p1, {<<defaultToken(LabelP0), of0>>, <<defaultToken(LabelP1), of1>>}>>

\* C15: the small graph (p0 = 8 and p1 = 12 feed c0 at rate 4, c0 requires
\* 2 of p0 and 1 of p1 per unit and feeds the Gate at rate 1, the Gate
\* feeds p0 with weight 1 and p1 with weight 0): the states of p0, p1 and
\* the buffer after the ticks 1..5 are (5, 8, {2, 3}), (2, 4, {4, 6}),
\* (1, 0, {4, 9}), (1, 0, {3, 8}), (1, 0, {2, 7}).
C15_SmallGraphToP0 ==
  elements = GraphOf(SmallGraph(1, 0)) =>
    /\ \A after \in TicksFrom({elements}, 1) : SmallStates(after) = SmallAfter(5, 8, 2, 3)
    /\ \A after \in TicksFrom({elements}, 2) : SmallStates(after) = SmallAfter(2, 4, 4, 6)
    /\ \A after \in TicksFrom({elements}, 3) : SmallStates(after) = SmallAfter(1, 0, 4, 9)
    /\ \A after \in TicksFrom({elements}, 4) : SmallStates(after) = SmallAfter(1, 0, 3, 8)
    /\ \A after \in TicksFrom({elements}, 5) : SmallStates(after) = SmallAfter(1, 0, 2, 7)

\* the small graph whose Gate feeds p0, after its fifth tick
C15_SmallGraphAfterFive ==
  /\ DOMAIN elements = DOMAIN GraphOf(SmallGraph(1, 0))
  /\ elements["g0"].toEdges = GraphOf(SmallGraph(1, 0))["g0"].toEdges
  /\ SmallStates(elements) = SmallAfter(1, 0, 2, 7)

\* C16: the small graph with both weights of the Gate 0: the states of
\* p0, p1 and the buffer after the ticks 1..4 are (4, 8, {2, 3}),
\* (0, 4, {4, 6}), (0, 0, {2, 9}), (0, 0, {0, 8}), and no later tick
\* changes them.
C16_SmallGraphToNowhere ==
  elements = GraphOf(SmallGraph(0, 0)) =>
    /\ \A after \in TicksFrom({elements}, 1) : SmallStates(after) = SmallAfter(4, 8, 2, 3)
    /\ \A after \in TicksFrom({elements}, 2) : SmallStates(after) = SmallAfter(0, 4, 4, 6)
    /\ \A after \in TicksFrom({elements}, 3) : SmallStates(after) = SmallAfter(0, 0, 2, 9)
    /\ \A n \in 4..7 : \A after \in TicksFrom({elements}, n) :
         /\ SmallStates(after) = SmallAfter(0, 0, 0, 8)
         /\ AfterTick(after) = {after}

\* the small graph whose Gate feeds nothing has run until its Converter
\* has used up one of its inputs
C16_SmallGraphRunDry ==
  /\ DOMAIN elements = DOMAIN GraphOf(SmallGraph(0, 0))
  /\ elements["g0"].toEdges = GraphOf(SmallGraph(0, 0))["g0"].toEdges
  /\ SmallStates(elements) = SmallAfter(0, 0, 0, 8)

\* the Converters in the subgroups of a parallel group
ConvertersOf(els, group) ==
  {id \in UNION {SeqToSet(group.groups[g]) : g \in DOMAIN group.groups} :
     els[id].type = "converter"}

\* every entry of the buffer `seen` is an entry of the buffer `start` with
\* an amount that is not smaller
NotAbove(seen, start) ==
  \A j \in DOMAIN seen :
    /\ HasEntry(start, seen[j].token)
    /\ seen[j].amount <= EntryOf(start, seen[j].token).amount

\* the Converters of the Cyclic groups of a tick
CyclicConvertersOf(els, selected) ==
  UNION {ConvertersOf(els, group) :
           group \in {g \in SeqToSet(Compiled(els, selected)) : g.type = "cyclic"}}

\* C17: in a Cyclic parallel group no Converter buffer is increased while
\* the subgroups execute: every takeFromState of the tick sees, for each
\* token, an amount not larger than the amount at the start of the tick,
\* and the packets for the Converters of the group enter the buffers only
\* in writeToGraph, after executeCompiledGraph has returned.
C17_CyclicBuffersWait ==
  \A selected \in GateSelections(elements) :
    \A pick \in TickPicks(elements, selected) :
      \A executed \in {Executed(elements, selected, pick)} :
        \A x \in {writeToGraph(executed.x, executed.allOutputs)} :
          \A id \in CyclicConvertersOf(elements, selected) :
            \A i \in DOMAIN x.log :
              x.log[i].id = id =>
                /\ x.log[i].op = "takeFromState"
                     => NotAbove(x.log[i].before, elements[id].buffer)
                /\ x.log[i].op = "addToBuffer" => i > Len(executed.x.log)

\* a tick takes from the buffer of a Converter of a Cyclic group and
\* delivers a packet to the same Converter
C17_CyclicTakeAndDeliver ==
  \E selected \in GateSelections(elements) :
    \E pick \in TickPicks(elements, selected) :
      \E x \in {nextTick(elements, selected, pick)} :
        \E id \in CyclicConvertersOf(elements, selected) :
          /\ x.whole
          /\ \E i \in DOMAIN x.log :
               x.log[i].id = id /\ x.log[i].op = "takeFromState" /\ x.log[i].amount > 0
          /\ \E i \in DOMAIN x.log :
               x.log[i].id = id /\ x.log[i].op = "addToBuffer" /\ x.log[i].amount > 0

\* the elements of one type in a subgroup
OfType(els, subGroup, type) == {id \in SeqToSet(subGroup) : els[id].type = type}

\* every subgroup of every parallel group of a compiled graph holds at
\* most one Pool and at most one Converter
AtMostOneEach(els, compiledGraph) ==
  \A k \in DOMAIN compiledGraph : \A g \in DOMAIN compiledGraph[k].groups :
    /\ Cardinality(OfType(els, compiledGraph[k].groups[g], "pool")) <= 1
    /\ Cardinality(OfType(els, compiledGraph[k].groups[g], "converter")) <= 1

\* C18: after the cut at the Converter inputs every subgroup of every
\* parallel group contains at most one Pool and at most one Converter, in
\* normal mode and in check mode.
C18_OnePoolOneConverter ==
  /\ \A selected \in GateSelections(elements) :
       AtMostOneEach(elements, Compiled(elements, selected))
  /\ AtMostOneEach(elements, CompiledForCheck(elements))

\* C19: checkGraph() changes nothing: after it returns every Pool state,
\* every Gate selection and weight, every Converter buffer, every Swap
\* amount and the elements and labels are those before the call.
C19_CheckGraphChangesNothing == checkGraph(elements).els = elements

\* checkGraph() compiles a graph of well-formed Swaps in which a Gate has
\* yet to select the output that its next tick selects
C19_CheckBeforeSelection ==
  /\ checkGraph(elements).type # "error"
  /\ \E selected \in GateSelections(elements) :
       \E g \in GatesOf(elements) :
         /\ selected[g] # Undefined
         /\ elements[g].selectedToEdge # selected[g]

\* a Swap that validateSwapConfig rejects, in the words of the claim
Malformed(swap) ==
  \/ swap.tokenA.token = UndefinedToken
  \/ swap.tokenB.token = UndefinedToken
  \/ swap.tokenA.amount <= 0
  \/ swap.tokenB.amount <= 0
  \/ swap.constraint <= 0

\* the Converters of the graph form a dependency cycle in check mode
HasConverterCycle ==
  \E k \in DOMAIN CompiledForCheck(elements) :
    CompiledForCheck(elements)[k].type = "cyclic"

\* C20: checkGraph() returns a result of kind Error if and only if some
\* Swap of the graph is malformed (a token undefined, an amount <= 0 or
\* the constraint <= 0), also when the Converters form a dependency cycle.
C20_ErrorIffMalformedSwap ==
  /\ checkGraph(elements).type = "error"
       <=> \E id \in SwapsOf(elements) : Malformed(elements[id])
  /\ (HasConverterCycle /\ \E id \in SwapsOf(elements) : Malformed(elements[id]))
       => checkGraph(elements).type = "error"

\* a graph with a malformed Swap whose Converters form a dependency cycle
C20_MalformedAndCyclic ==
  /\ HasConverterCycle
  /\ \E id \in SwapsOf(elements) : Malformed(elements[id])

\* the Cyclic parallel groups of the compilation in check mode
CyclicGroupsForCheck ==
  SelectSeq(CompiledForCheck(elements), LAMBDA group : group.type = "cyclic")

\* no Swap of the graph is malformed
SwapsWellFormed == \A id \in SwapsOf(elements) : ~Malformed(elements[id])

\* the graph after setGateOutputWeight(gateId, edgeId, weight)
AfterWeight(gateId, edgeId, weight) ==
  ElementsOf(setGateOutputWeight(Start, gateId, edgeId, weight))

\* C21: when no Swap is malformed, checkGraph() returns Warning exactly
\* when the compilation in check mode holds a Cyclic parallel group, with
\* one set of Converter ids per Cyclic group, and NoError otherwise; a
\* weight of 0 on the only Gate output that closes a cycle of Converters
\* turns Warning into NoError.
C21_WarningIffCyclic ==
  /\ SwapsWellFormed =>
       \A result \in {checkGraph(elements)} : \A cyclic \in {CyclicGroupsForCheck} :
         /\ result.type = (IF Len(cyclic) > 0 THEN "warning" ELSE "no error")
         /\ Len(result.cyclicConverters) = Len(cyclic)
         /\ \A i \in DOMAIN cyclic :
              /\ result.cyclicConverters[i] # {}
              /\ result.cyclicConverters[i] \subseteq ConvertersOf(elements, cyclic[i])
  /\ elements = GraphOf(GateCycle(1)) =>
       /\ checkGraph(elements).type = "warning"
       /\ checkGraph(elements).cyclicConverters = <<{"c0", "c1"}>>
       /\ checkGraph(AfterWeight("g0", "g0-c1", 0)).type = "no error"

\* a Gate output of positive weight closes a cycle of Converters that
\* checkGraph() reports, and that a weight of 0 on it opens
C21_GateClosesCycle ==
  \E g \in GatesOf(elements) : \E i \in DOMAIN elements[g].toEdges :
    /\ elements[g].toEdges[i].weight > 0
    /\ checkGraph(elements).type = "warning"
    /\ checkGraph(AfterWeight(g, elements[g].toEdges[i].id, 0)).type = "no error"

(***************************************************************************)
(* Claims about single calls on elements.                                  *)
(***************************************************************************)
\* the Gates of the graph
Gates == {id \in DOMAIN elements : elements[id].type = "gate"}

\* the outputs of a Gate that have a positive weight
PositiveOutputs(gate) ==
  {gate.toEdges[i].id : i \in {k \in DOMAIN gate.toEdges : gate.toEdges[k].weight > 0}}

\* C22: the advance of a Gate never selects an output whose weight is 0,
\* can select only an output of positive weight when there is one, and
\* selects none when the Gate has no outputs or all weights are 0.
C22_SelectionFollowsWeights ==
  \A id \in Gates :
    /\ PositiveOutputs(elements[id]) = {}
         => Gate_randomSelect(elements[id]) = {Undefined}
    /\ PositiveOutputs(elements[id]) # {}
         => /\ Gate_randomSelect(elements[id]) # {}
            /\ Gate_randomSelect(elements[id]) \subseteq PositiveOutputs(elements[id])

\* a Gate has selected its only output of positive weight, the second of
\* two
C22_SelectedPastZeroWeight ==
  \E id \in Gates :
    /\ Len(elements[id].toEdges) = 2
    /\ elements[id].toEdges[1].weight = 0
    /\ elements[id].toEdges[2].weight > 0
    /\ elements[id].selectedToEdge = elements[id].toEdges[2].id

(***************************************************************************)
(* Claims about clone().                                                   *)
(***************************************************************************)
\* the graph that `graphClone` holds
CloneContents == <<graphClone.elements, graphClone.labels, graphClone.autoLabelCounter>>

C24_CloneIsFaithful ==
  \A c \in {Graph_clone(elements, labels, autoLabelCounter)} :
    /\ c.elements = elements
    /\ c.labels = labels
    /\ c.autoLabelCounter = autoLabelCounter
    /\ \A selected \in GateSelections(elements) :
         \A pick \in TickPicks(elements, selected) :
           /\ pick \in TickPicks(c.elements, selected)
           /\ nextTick(c.elements, selected, pick) = nextTick(elements, selected, pick)

(***************************************************************************)
(* Claims about Swap.swap, on the Swaps of `elements`.                     *)
(***************************************************************************)
Swaps == {id \in DOMAIN elements : elements[id].type = "swap"}
SwapArgs == ((-1)..MaxSwapIn) \X SwapTokens

\* the side of a Swap that a swap of `token` pays out, and the other side
PaidSide(swap, token) == IF token = swap.tokenA.token THEN swap.tokenB ELSE swap.tokenA
FedSide(swap, token) == IF token = swap.tokenA.token THEN swap.tokenA ELSE swap.tokenB

WeightOf(gate, edgeId) == gate.toEdges[FirstIndex(gate.toEdges, "id", edgeId)].weight

\* the output edges of a Gate
OutputsOf(gate) == {gate.toEdges[i].id : i \in DOMAIN gate.toEdges}

\* C26 as stated: setGateOutputWeight(gateId, edgeId, weight) with
\* weight < 0 is rejected with the error 'output weight must be >= 0' and
\* leaves the stored weight of the edge as it was.
C26_NegativeWeightRejected ==
  \A gateId \in Gates :
    \A edgeId \in {elements[gateId].toEdges[i].id : i \in DOMAIN elements[gateId].toEdges} :
      \A weight \in {-2, -1} :
        \A r \in {setGateOutputWeight(Start, gateId, edgeId, weight)} :
          /\ r.err = "output weight must be >= 0"
          /\ WeightOf(ElementsOf(r)[gateId], edgeId) = WeightOf(elements[gateId], edgeId)

\* C26, amended: setGateOutputWeight(gateId, edgeId, weight) with
\* weight < 0 raises no error, stores the weight 0 for the edge and leaves
\* every other element and weight as it was; validateGateOutputWeight
\* with the same arguments raises 'output weight must be >= 0' and changes
\* nothing.
C26_NegativeWeightIsZero ==
  \A gateId \in Gates : \A edgeId \in OutputsOf(elements[gateId]) :
    \A weight \in {-2, -1} :
      /\ \A r \in {setGateOutputWeight(Start, gateId, edgeId, weight)} :
           /\ r.err = NoError
           /\ ElementsOf(r) =
                [elements EXCEPT ![gateId] = Gate_setOutput(@, edgeId, 0)]
           /\ WeightOf(ElementsOf(r)[gateId], edgeId) = 0
      /\ \A r \in {validateGateOutputWeight(Start, gateId, edgeId, weight)} :
           /\ r.err = "output weight must be >= 0"
           /\ ElementsOf(r) = elements

\* a Gate with an output of positive weight, which a negative weight
\* turns to 0
C26_PositiveWeightToClamp ==
  \E gateId \in Gates : \E edgeId \in OutputsOf(elements[gateId]) :
    /\ WeightOf(elements[gateId], edgeId) > 0
    /\ WeightOf(ElementsOf(setGateOutputWeight(Start, gateId, edgeId, -1))[gateId], edgeId) = 0

\* the Converters of the graph, and the tokens that the calls are tried with
Converters == {id \in DOMAIN elements : elements[id].type = "converter"}
RequiredTokens(converter) ==
  {converter.requiredInputPerUnit[i].token : i \in DOMAIN converter.requiredInputPerUnit}
TokenArgs(id) ==
  upStreamTokensOfConverter(Start, id) \cup RequiredTokens(elements[id])
    \cup {<<"x">>} \cup {IdText[e] : e \in DOMAIN IdText}
RequiredArgs == {-1, 0, 1, 3}

\* C27: a call setConverterRequiredInputPerUnit(convId, token, amount) that
\* returns has set requiredInputPerUnit[token] to amount when amount > 0
\* and has removed the token from requiredInputPerUnit when amount <= 0;
\* the input edges of the Converter and every other requirement, and every
\* other element, are as before.
C27_RequirementSetOrRemoved ==
  \A id \in Converters : \A token \in TokenArgs(id) : \A amount \in RequiredArgs :
    \A r \in {setConverterRequiredInputPerUnit(Start, id, token, amount)} :
      r.err = NoError =>
        ElementsOf(r) =
          [elements EXCEPT ![id] =
             IF amount > 0 THEN Converter_setRequiredInputPerUnit(@, token, amount)
             ELSE Converter_deleteRequiredInputPerUnit(@, token)]

\* C28: setConverterRequiredInputPerUnit raises an error and changes
\* nothing when the token is not among the upstream tokens of the
\* Converter, and returns without error for every token among them.
C28_RejectsTokensNotUpstream ==
  \A id \in Converters : \A token \in TokenArgs(id) : \A amount \in RequiredArgs :
    \A r \in {setConverterRequiredInputPerUnit(Start, id, token, amount)} :
      IF token \in upStreamTokensOfConverter(Start, id)
      THEN r.err = NoError
      ELSE r.err # NoError /\ ElementsOf(r) = elements

(***************************************************************************)
(* Claims about Converter._takeFromState, on the Converters of `elements`. *)
(* The greatest convertible number is stated here on its own, as a         *)
(* quotient <<n, d>>, from the buffer and the requirements.                *)
(***************************************************************************)
AmountIn(converter, token) == EntryOf(converter.buffer, token).amount
ValueOf(converter, token) == EntryOf(converter.requiredInputPerUnit, token).value

\* buffer[t] / required[t] of a required token t that is least
LeastRatio(converter) ==
  CHOOSE q \in {<<AmountIn(converter, t), ValueOf(converter, t)>> :
                  t \in RequiredTokens(converter)} :
    \A t \in RequiredTokens(converter) :
      q[1] * ValueOf(converter, t) <= AmountIn(converter, t) * q[2]

MaximumOf(converter) ==
  IF \/ converter.condition # "true"
     \/ RequiredTokens(converter) = {}
     \/ \E t \in RequiredTokens(converter) : ~HasEntry(converter.buffer, t)
  THEN <<0, 1>>
  ELSE LeastRatio(converter)

C30_AddAndTakeReturn ==
  \A id \in Pools : \A delta \in Amounts :
    \A pool \in {elements[id]} :
      \A added \in {Pool_addToPool_call(pool, delta)} :
        \A taken \in {Pool_takeFromPool_call(pool, delta)} :
          IF delta >= 0
          THEN /\ added.err = NoError /\ taken.err = NoError
               /\ added.returned = IF pool.capacity < 0 THEN delta
                                   ELSE Min(delta, pool.capacity - pool.state)
               /\ added.pool = [pool EXCEPT !.state = @ + added.returned]
               /\ taken.returned = Min(delta, pool.state)
               /\ taken.pool = [pool EXCEPT !.state = @ - taken.returned]
          ELSE /\ added.err # NoError /\ taken.err # NoError
               /\ added.pool = pool /\ taken.pool = pool

\* a Pool that holds less than is asked for and has room for less than is
\* offered
C30_ReturnsLessThanAsked ==
  \E id \in Pools : \E delta \in Amounts :
    /\ elements[id].capacity > elements[id].state
    /\ Pool_addToPool_call(elements[id], delta).returned \in 1..(delta - 1)
    /\ Pool_takeFromPool_call(elements[id], delta).returned \in 1..(delta - 1)

(***************************************************************************)
(* Claims about the packets that a tick stages.                            *)
(***************************************************************************)
\* C31: in every nextTick of a graph that successful edit calls built, a
\* Pool is the destination of at most one packet, so writeToGraph never
\* throws 'must have exactly one packet to Pool'.
C31_OnePacketPerPool ==
  \A selected \in GateSelections(elements) :
    \A pick \in TickPicks(elements, selected) :
      \A executed \in {Executed(elements, selected, pick)} :
        /\ \A i \in DOMAIN executed.allOutputs :
             elements[executed.allOutputs[i].id].type = "pool"
               => Len(executed.allOutputs[i].packets) <= 1
        /\ nextTick(elements, selected, pick).err
             # "must have exactly one packet to Pool"

(***************************************************************************)
(* upStreamTokensOfConverter on the graphs that addEdge and deleteElement  *)
(* make of a Pool, two Gates and a Converter.                              *)
(***************************************************************************)
UpstreamNodes ==
  <<NodeOp("pool", "p0", LabelP0), NodeOp("gate", "g0", Omitted),
    NodeOp("gate", "g1", Omitted), NodeOp("converter", "c0", Omitted)>>

\* the edges that are added, as [id, from, to]
UpstreamEdges ==
  {[id |-> "p0-g0", from |-> "p0", to |-> "g0"],
   [id |-> "g0-g1", from |-> "g0", to |-> "g1"],
   [id |-> "g1-g0", from |-> "g1", to |-> "g0"],
   [id |-> "g0-c0", from |-> "g0", to |-> "c0"],
   [id |-> "g1-c0", from |-> "g1", to |-> "c0"],
   [id |-> "p0-c0", from |-> "p0", to |-> "c0"]}

UpstreamInit ==
  \E r \in {Build(NewGraph, UpstreamNodes)} :
    /\ elements = ElementsOf(r)
    /\ labels = r.labels
    /\ autoLabelCounter = r.autoLabelCounter
    /\ graphClone = NoClone

UpstreamNext ==
  \/ \E e \in UpstreamEdges : AddEdge(e.id, e.from, e.to, Omitted, Omitted)
  \/ \E e \in UpstreamEdges : DeleteElement(e.id)

UpstreamSpec == UpstreamInit /\ [][UpstreamNext]_vars

RECURSIVE BackwardFrom(_, _, _)
\* the elements met when going from the elements `frontier` against the
\* direction of the Edges, through Edges and Gates only
BackwardFrom(els, frontier, seen) ==
  IF frontier \subseteq seen THEN seen
  ELSE BackwardFrom(els,
         {els[id].fromNode : id \in {e \in frontier \ seen : els[e].type = "edge"}}
           \cup {els[id].fromEdge : id \in {g \in frontier \ seen :
                                              /\ els[g].type = "gate"
                                              /\ els[g].fromEdge # Undefined}},
         seen \cup frontier)

\* the tokens of the Pools and Converters met when going backward from the
\* input edges of a Converter
BackwardTokens(els, converterId) ==
  {els[id].token :
     id \in {n \in BackwardFrom(els, SeqToSet(els[converterId].fromEdges), {}) :
               els[n].type \in {"pool", "converter"}}}

\* C32: upStreamTokensOfConverter(converterId) returns on every graph that
\* the edit calls build, also when Gates form a cycle that feeds the
\* Converter, and what it returns is the set of the tokens of the Pools and
\* Converters reached backward from the input edges of the Converter
\* through Edges and Gates.
C32_UpstreamTokensReturned ==
  \A id \in Converters :
    /\ upStreamTokensOfConverterReturns(Start, id)
    /\ upStreamTokensOfConverter(Start, id) = BackwardTokens(elements, id)

\* on the graphs whose Gates form no cycle the set is the one of the claim
C32_TokensWithoutGateCycle ==
  \A id \in Converters :
    upStreamTokensOfConverterReturns(Start, id)
      => upStreamTokensOfConverter(Start, id) = BackwardTokens(elements, id)

(***************************************************************************)
(* Claims about the calls of runEdge in a tick.                            *)
(***************************************************************************)
\* no value is at two places of the list
NoRepeat(list) == \A i, j \in DOMAIN list : list[i] = list[j] => i = j

\* C33: the execution of the subgroups returns and runs every edge at most
\* once in a tick, on every graph that the edit calls build, also when
\* Gates or Swaps form a cycle.
C33_EachEdgeOnceAndReturns ==
  \A selected \in GateSelections(elements) :
    \A pick \in TickPicks(elements, selected) :
      \A x \in {Executed(elements, selected, pick).x} :
        /\ x.err # StackOverflow
        /\ NoRepeat(x.ran)

\* on the graphs whose runs return, no edge is run twice
C33_EachEdgeOnceWhenReturned ==
  \A selected \in GateSelections(elements) :
    \A pick \in TickPicks(elements, selected) :
      \A x \in {Executed(elements, selected, pick).x} :
        x.err # StackOverflow => NoRepeat(x.ran)

(***************************************************************************)
(* Claims about checkGraph and the compilations of the ticks.              *)
(***************************************************************************)
\* some outcome of the selections of the Gates gives a compilation with a
\* Cyclic parallel group
CyclicForSomeSelection ==
  \E selected \in GateSelections(elements) :
    \E k \in DOMAIN Compiled(elements, selected) :
      Compiled(elements, selected)[k].type = "cyclic"

\* C34: when no Swap is malformed and, for some choice of one output of
\* positive weight per Gate, the compilation of a tick holds a Cyclic
\* parallel group, checkGraph() returns Warning; also when a Gate has
\* outputs of positive weight that lead to two Converters.
C34_CyclicSelectionWarned ==
  (SwapsWellFormed /\ CyclicForSomeSelection) => checkGraph(elements).type = "warning"

\* the groups of cutAtPoolInput in the ticks of the current graph, each a
\* record of the active elements and the groups
PoolCuts ==
  {[activeElements |-> active.activeElements,
    els |-> active.els,
    groups |-> cutAtPoolInput(active.els, active.activeElements, FALSE)] :
     active \in {Activated(elements, selected) : selected \in GateSelections(elements)}}

\* the groups that hold an element
GroupsOf(groups, id) == {k \in DOMAIN groups : id \in SeqToSet(groups[k])}

\* the pipes of the Swaps whose input and output edge are both active
ValidPipes(cut) ==
  {pipe \in UNION {SeqToSet(cut.els[id].pipes) :
                     id \in {s \in SeqToSet(cut.activeElements) : cut.els[s].type = "swap"}} :
     /\ pipe.in \in SeqToSet(cut.activeElements)
     /\ pipe.out \in SeqToSet(cut.activeElements)}

\* C35: the parallel groups of cutAtPoolInput are the connected components
\* of the active set, whatever the order of the keys: every active element
\* that is no Swap is in exactly one group, and the input edge and the
\* output edge of every valid pipe of a Swap are in the same group.
C35_GroupsAreComponents ==
  \A cut \in PoolCuts :
    /\ \A id \in SeqToSet(cut.activeElements) :
         cut.els[id].type # "swap" => Cardinality(GroupsOf(cut.groups, id)) = 1
    /\ \A pipe \in ValidPipes(cut) :
         GroupsOf(cut.groups, pipe.in) = GroupsOf(cut.groups, pipe.out)

\* every active element that is no Swap is in exactly one group
C35_EachElementInOneGroup ==
  \A cut \in PoolCuts :
    \A id \in SeqToSet(cut.activeElements) :
      cut.els[id].type # "swap" => Cardinality(GroupsOf(cut.groups, id)) = 1

(***************************************************************************)
(* Claims about the order in which a tick runs the groups.                 *)
(***************************************************************************)
\* the orders of n things
OrdersOf(n) == {order \in [1..n -> 1..n] : \A i, j \in 1..n : order[i] = order[j] => i = j}

\* a list with its entries in another order
InOrder(list, order) == [i \in 1..Len(list) |-> list[order[i]]]

\* a parallel group with its subgroups in another order
SubgroupsInOrder(group, order) ==
  [group EXCEPT !.groups = InOrder(@, order),
                !.converterOfGroup = InOrder(@, order),
                !.entryPointsToGroup = InOrder(@, order)]

\* one order of the subgroups for every Cyclic group of a compiled graph;
\* the subgroups of an Ordered group keep their numbers
SubgroupOrders(compiledGraph) ==
  {orders \in [DOMAIN compiledGraph ->
                 UNION {OrdersOf(Len(compiledGraph[k].groups)) : k \in DOMAIN compiledGraph}] :
     \A k \in DOMAIN compiledGraph :
       /\ orders[k] \in OrdersOf(Len(compiledGraph[k].groups))
       /\ compiledGraph[k].type = "ordered" => \A g \in DOMAIN orders[k] : orders[k][g] = g}

\* the tick in which the parallel groups run in the order groupOrder and
\* the subgroups of the Cyclic group k in the order subgroupOrders[k]
TickInOrder(els, selected, pick, groupOrder, subgroupOrders) ==
  CHOOSE x \in
    {writeToGraph(executed.x, executed.allOutputs) :
       executed \in
         {executeCompiledGraph(TickRun(active.els),
                               InOrder([k \in DOMAIN compiledGraph |->
                                          SubgroupsInOrder(compiledGraph[k], subgroupOrders[k])],
                                       groupOrder),
                               InOrder(pick, groupOrder)) :
            active \in {Activated(els, selected)},
            compiledGraph \in {Compiled(els, selected)}}} : TRUE

\* the graph after a tick: the order of the keys of a buffer is no part of it
StateAfter(x) ==
  [err |-> x.err,
   els |-> [id \in DOMAIN x.els |->
              IF x.els[id].type = "converter"
              THEN [x.els[id] EXCEPT !.buffer = SeqToSet(@)]
              ELSE x.els[id]]]

\* every condition of the graph is a constant and no Swap has two pipes
OneWaySwaps ==
  \A id \in DOMAIN elements : elements[id].type = "swap" => Len(elements[id].pipes) <= 1

\* C36: when the conditions are constants and no Swap has more than one
\* pipe, the graph after a tick is the same whatever the order in which
\* the parallel groups are run and whatever the order of the subgroups of a
\* Cyclic group.
C36_GroupOrderFree ==
  OneWaySwaps =>
    \A selected \in GateSelections(elements) :
      \A pick \in TickPicks(elements, selected) :
        \A groupOrder \in OrdersOf(Len(Compiled(elements, selected))) :
          \A subgroupOrders \in SubgroupOrders(Compiled(elements, selected)) :
            StateAfter(TickInOrder(elements, selected, pick, groupOrder, subgroupOrders))
              = StateAfter(nextTick(elements, selected, pick))

\* a tick of a graph with a Cyclic group of two subgroups or more, in which
\* two edges run and the graph changes
C36_TwoOrdersDeliver ==
  /\ OneWaySwaps
  /\ \E selected \in GateSelections(elements) :
       \E pick \in TickPicks(elements, selected) :
         \E k \in DOMAIN Compiled(elements, selected) :
           /\ Compiled(elements, selected)[k].type = "cyclic"
           /\ Len(Compiled(elements, selected)[k].groups) >= 2
           /\ nextTick(elements, selected, pick).whole
           /\ Len(nextTick(elements, selected, pick).ran) >= 2
           /\ StateAfter(nextTick(elements, selected, pick)).els
                # StateAfter(TickRun(elements)).els

(***************************************************************************)
(* Claims about the condition of an edge.                                  *)
(***************************************************************************)
\* the edges that leave a Pool or a Converter and whose condition is false
ClosedSourceEdges ==
  {id \in DOMAIN elements :
     /\ elements[id].type = "edge"
     /\ ~Edge_evaluateCondition(elements[id])
     /\ elements[id].fromNode \in DOMAIN elements
     /\ elements[elements[id].fromNode].type \in {"pool", "converter"}}

\* the packets of an output map
PacketsOf(outputs) ==
  UNION {SeqToSet(outputs[i].packets) : i \in DOMAIN outputs}

\* C37: when the condition of an edge that leaves a Pool or a Converter is
\* false in a tick, the tick takes nothing from the source over the edge
\* and stages no packet for it: the source is after the execution as the
\* activation left it, and no packet comes from it.
C37_ClosedEdgeTakesNothing ==
  \A selected \in GateSelections(elements) :
    \A pick \in TickPicks(elements, selected) :
      \A executed \in {Executed(elements, selected, pick)} :
        \A edgeId \in ClosedSourceEdges :
          \A source \in {elements[edgeId].fromNode} :
            elements[source].toEdge = edgeId =>
              /\ executed.x.els[source] = Activated(elements, selected).els[source]
              /\ \A i \in DOMAIN executed.x.log :
                   executed.x.log[i].id = source
                     => executed.x.log[i].op \notin {"takeFromPool", "takeFromState"}
              /\ \A packet \in PacketsOf(executed.allOutputs) : packet.from # source

\* the closed edge leaves a Pool or a Converter that has something to give,
\* and the tick runs the edge
C37_ClosedEdgeOfFullSource ==
  \E edgeId \in ClosedSourceEdges :
    \E source \in {elements[edgeId].fromNode} :
      /\ elements[source].toEdge = edgeId
      /\ \/ elements[source].type = "pool" /\ elements[source].state > 0
         \/ /\ elements[source].type = "converter"
            /\ Converter_maximumConvertable(elements[source])[1] > 0
      /\ \E selected \in GateSelections(elements) :
           \E pick \in TickPicks(elements, selected) :
             edgeId \in SeqToSet(Executed(elements, selected, pick).x.ran)

(***************************************************************************)
(* Claims about the buffer of a Converter.                                 *)
(***************************************************************************)
\* C38: after any addToBuffer and takeFromState calls, every entry of the
\* buffer of every Converter is >= 0: the entries of the graph are, and
\* every _takeFromState call on it leaves them so.
C38_BufferNeverBelowZero ==
  \A id \in Converters :
    /\ \A i \in DOMAIN elements[id].buffer : elements[id].buffer[i].amount >= 0
    /\ \A amount \in 0..MaxStock : BelowZeroAfterTake(elements[id], <<amount, 1>>) = {}

\* the entries stay >= 0 over the calls that take a whole number
C38_BufferOfWholeTakes ==
  \A id \in Converters :
    /\ \A i \in DOMAIN elements[id].buffer : elements[id].buffer[i].amount >= 0
    /\ \A amount \in 0..MaxStock :
         Converter_takeFromState(elements[id], <<amount, 1>>).whole
           => BelowZeroAfterTake(elements[id], <<amount, 1>>) = {}

(***************************************************************************)
(* Claims about the quantity that a tick of Pools moves.                   *)
(***************************************************************************)
RECURSIVE SumOfStates(_, _)
\* the sum of the states of the Pools `ids` of the graph els
SumOfStates(els, ids) ==
  IF ids = {} THEN 0
  ELSE LET id == CHOOSE i \in ids : TRUE
       IN els[id].state + SumOfStates(els, ids \ {id})

PoolsOf(els) == {id \in DOMAIN els : els[id].type = "pool"}

\* the graph holds nothing but Pools without a capacity, which all have the
\* action and the condition of the constructor, and edges whose condition
\* is true
OnlyOpenPools ==
  /\ Pools # {}
  /\ \A id \in DOMAIN elements :
       \/ elements[id].type = "pool" /\ elements[id].capacity < 0
       \/ elements[id].type = "edge" /\ Edge_evaluateCondition(elements[id])

\* every edge is the output edge of its source and the input edge of its
\* destination
EdgesAreWired ==
  \A id \in DOMAIN elements :
    elements[id].type = "edge"
      => /\ elements[id].fromNode \in DOMAIN elements
         /\ elements[id].toNode \in DOMAIN elements
         /\ elements[elements[id].fromNode].toEdge = id
         /\ elements[elements[id].toNode].fromEdge = id

\* C39: in a graph of unbounded Pools with the default action and edges
\* whose conditions are true, nextTick leaves the sum of the states of all
\* Pools as it was.
C39_PoolSumPreserved ==
  OnlyOpenPools =>
    \A after \in AfterTick(elements) :
      SumOfStates(after, PoolsOf(after)) = SumOfStates(elements, Pools)

\* the sum stays over the ticks of the graphs whose Pools know every edge
\* that touches them
C39_SumOfWiredPools ==
  OnlyOpenPools /\ EdgesAreWired =>
    \A after \in AfterTick(elements) :
      SumOfStates(after, PoolsOf(after)) = SumOfStates(elements, Pools)

\* a tick of such a graph moves something from one Pool to another
C39_TickMovesBetweenPools ==
  /\ OnlyOpenPools /\ EdgesAreWired
  /\ \E after \in AfterTick(elements) : \E id \in Pools :
       after[id].state # elements[id].state

====
